---- MODULE Spec2Model ----
(***************************************************************************)
(* Model of the CV-analyzer backend (backend/app): the text extractor      *)
(* (utils.py), the analyzer and enhancer (openai_utils.py), the session    *)
(* store (crud.py, database.py) and the /api/analyze-cv handler (main.py). *)
(*                                                                         *)
(* Strings are sequences of characters; a long literal of the source is    *)
(* one element of such a sequence.  A call's outcome is a record: either   *)
(* Return(value) or Raise(class, message).                                 *)
(***************************************************************************)
EXTENDS Integers, Sequences, FiniteSets, TLC

VARIABLES
    \* --- extractor (utils.py) ---
    tesseract,      \* whether pytesseract.get_tesseract_version() works now
    TESSERACT_AVAILABLE, \* the module flag set by the probe made at import
    x_path,         \* the file path given to extract_text
    x_file,         \* what the file at that path holds
    x_out,          \* the outcome of the last extract_text call, or NoCall
    d_out,          \* the outcome of the last extract_text_from_docx call
    \* --- analyzer / enhancer (openai_utils.py) ---
    a_env,          \* credential, service behaviour and reply of the call, and its arguments
    a_out,          \* the outcome of the last analyze_cv call
    a_calls,        \* the calls of the service that analyze_cv call made
    s_in,           \* the missing_skills argument of the enhancer call
    s_out,          \* the outcome of the last generate_cv_improvement_suggestions call
    \* --- session store, file system and the /api/analyze-cv request ---
    sessions,       \* the cv_sessions table: session id -> row
    files,          \* the temporary files that exist
    next_tmp,       \* how many temporary names have been generated
    clock,          \* datetime.utcnow()
    req,            \* the /api/analyze-cv request in flight
    resp,           \* the response of the last finished request
    last_call,      \* the last direct call of a store operation
    txns            \* the update_analysis calls running in store sessions of their own

xvars == <<tesseract, TESSERACT_AVAILABLE, x_path, x_file, x_out, d_out>>
avars == <<a_env, a_out, a_calls, s_in, s_out>>
svars == <<sessions, files, next_tmp, clock, req, resp, last_call, txns>>
vars == <<xvars, avars, svars>>

-----------------------------------------------------------------------------
(* Outcomes and exception classes *)

NoCall == [kind |-> "none"]
Return(v) == [kind |-> "return", value |-> v]
Raise(cls, msg) == [kind |-> "raise", cls |-> cls, msg |-> msg]

\* The base class of each exception class the code can meet (Python's and
\* the libraries' hierarchy); "Exception" is the root the handlers name.
ExcBase(cls) ==
    CASE cls = "UnicodeDecodeError" -> "ValueError"
      [] cls = "JSONDecodeError" -> "ValueError"
      [] OTHER -> "Exception"

\* isinstance(e, handler): what an `except handler` clause catches.
Catches(handler, cls) ==
    \/ handler = cls
    \/ handler = ExcBase(cls)
    \/ handler = ExcBase(ExcBase(cls))

-----------------------------------------------------------------------------
(* Strings *)

IsSpace(c) == c \in {" ", "\n", "\t"}

RECURSIVE LStrip(_)
LStrip(s) == IF s # <<>> /\ IsSpace(Head(s)) THEN LStrip(Tail(s)) ELSE s

RECURSIVE RStrip(_)
RStrip(s) ==
    IF s # <<>> /\ IsSpace(s[Len(s)]) THEN RStrip(SubSeq(s, 1, Len(s) - 1)) ELSE s

\* str.strip()
Strip(s) == RStrip(LStrip(s))

\* sep.join(parts)
RECURSIVE Join(_, _)
Join(sep, parts) ==
    IF parts = <<>> THEN <<>>
    ELSE IF Len(parts) = 1 THEN parts[1]
    ELSE parts[1] \o sep \o Join(sep, Tail(parts))

\* s.startswith(p) and s.endswith(p)
StartsWith(s, p) == Len(s) >= Len(p) /\ SubSeq(s, 1, Len(p)) = p
EndsWith(s, p) == Len(s) >= Len(p) /\ SubSeq(s, Len(s) - Len(p) + 1, Len(s)) = p

UpperChars == <<"A", "B", "C", "D", "E", "F", "G", "H", "I", "J", "K", "L", "M",
                "N", "O", "P", "Q", "R", "S", "T", "U", "V", "W", "X", "Y", "Z">>
LowerChars == <<"a", "b", "c", "d", "e", "f", "g", "h", "i", "j", "k", "l", "m",
                "n", "o", "p", "q", "r", "s", "t", "u", "v", "w", "x", "y", "z">>

LowerChar(c) ==
    IF \E i \in 1..Len(UpperChars) : UpperChars[i] = c
    THEN LowerChars[CHOOSE i \in 1..Len(UpperChars) : UpperChars[i] = c]
    ELSE c

\* str.lower()
Lower(s) == [i \in 1..Len(s) |-> LowerChar(s[i])]

\* s contains the string p
Contains(s, p) ==
    \E i \in 1..(Len(s) - Len(p) + 1) : SubSeq(s, i, i + Len(p) - 1) = p

Rep(c, n) == [i \in 1..n |-> c]

\* The concatenation of a sequence of sequences.
RECURSIVE Concat(_)
Concat(ss) == IF ss = <<>> THEN <<>> ELSE Head(ss) \o Concat(Tail(ss))

NonEmpty(s) == s # <<>>
NonBlank(s) == Strip(s) # <<>>

-----------------------------------------------------------------------------
(* Extractor: utils.py *)

\* The index of the last c in s, 0 when there is none (str.rfind, 1-based).
RFind(s, c) ==
    IF \E i \in 1..Len(s) : s[i] = c
    THEN CHOOSE i \in 1..Len(s) : s[i] = c /\ \A j \in (i + 1)..Len(s) : s[j] # c
    ELSE 0

\* os.path.splitext(file_path)[1]: from the last dot of the base name, unless
\* that dot leads the base name.
SplitExt(p) ==
    LET sep == RFind(p, "/")
        dot == RFind(p, ".")
    IN  IF dot > sep /\ \E k \in (sep + 1)..(dot - 1) : p[k] # "."
        THEN SubSeq(p, dot, Len(p))
        ELSE <<>>

\* pytesseract.get_tesseract_version(): returns when the engine is there.
TesseractMissing == <<"tesseract is not installed or it's not in your PATH">>
\* The flag of the import is read instead of probing the engine.
ProbeTesseract_CachedAtImport(ocr) ==
    IF TESSERACT_AVAILABLE THEN Return(<<"5">>)
    ELSE Raise("TesseractNotFoundError", TesseractMissing)

ProbeTesseract(ocr) ==
    IF ocr THEN Return(<<"5">>) ELSE Raise("TesseractNotFoundError", TesseractMissing)

\* pdfplumber.open(path).pages: the per-page extract_text() results (None for
\* a page without text); a file that is no PDF raises.
PdfPages(file) ==
    IF file.fmt = "pdf" THEN Return(file.pages)
    ELSE Raise("PDFSyntaxError", <<"No /Root object! - Is this really a PDF?">>)

\* text += page.extract_text() or ""
PageText(page) == IF page.some THEN page.v ELSE <<>>

extract_text_from_pdf(file) ==
    LET opened == PdfPages(file)
    IN  IF opened.kind = "raise" THEN opened
        ELSE Return(Concat([i \in 1..Len(opened.value) |-> PageText(opened.value[i])]))

\* mammoth.extract_raw_text(docx_file).value
MammothRawText(file) ==
    IF file.fmt = "docx" THEN file.mammoth
    ELSE Raise("BadZipFile", <<"File is not a zip file">>)

\* docx.Document(file_path)
DocxDocument(file) ==
    IF file.fmt = "docx" THEN file.doc
    ELSE Raise("PackageNotFoundError", <<"Package not found">>)

\* Lines 60-62: the text of every paragraph that is not blank.
ParagraphParts(paras) ==
    SelectSeq([i \in 1..Len(paras) |-> paras[i].text], NonBlank)

\* Lines 70-73: the stripped, non-blank paragraph texts of a cell.
CellText(cell) ==
    SelectSeq([i \in 1..Len(cell) |-> Strip(cell[i].text)], NonEmpty)

\* Lines 67-80: a row gives at most one part, its non-empty cells joined with " | ".
RowParts(row) ==
    LET cells == SelectSeq([i \in 1..Len(row) |-> CellText(row[i])], NonEmpty)
        row_text == [i \in 1..Len(cells) |-> Join(<<" ">>, cells[i])]
        combined_row == Join(<<" ", "|", " ">>, SelectSeq(row_text, NonEmpty))
    IN  IF row_text # <<>> /\ NonBlank(combined_row) THEN <<combined_row>> ELSE <<>>

TableParts(tables) ==
    Concat([t \in 1..Len(tables) |->
        Concat([r \in 1..Len(tables[t]) |-> RowParts(tables[t][r])])])

\* Lines 84-87 and 93-96: the stripped, non-blank run texts of paragraphs.
RunParts(paras) ==
    Concat([i \in 1..Len(paras) |->
        SelectSeq([j \in 1..Len(paras[i].runs) |-> Strip(paras[i].runs[j])], NonEmpty)])

TableRunParts(tables) ==
    Concat([t \in 1..Len(tables) |->
        Concat([r \in 1..Len(tables[t]) |->
            Concat([c \in 1..Len(tables[t][r]) |-> RunParts(tables[t][r][c])])])])

Warn == "WARNING SIGN"
NoTextSentinel ==
    <<Warn, " No extractable text found. This document may contain only images, complex formatting, or be password protected.">>
DocxErrorSentinel(msg) == <<Warn, " Error extracting text from DOCX: ">> \o msg

\* Lines 41-52: the converter's text is used when it has more than 10
\* characters after trimming; a failure of the converter is swallowed.
MinMammothLen == 10

\* The handler of the first try block (line 51).
MammothHandler == "Exception"
\* A second handler that names one exception class only.
DocxHandler_ValueErrorOnly == "ValueError"
\* The handler of the second try block (line 106).
DocxHandler == "Exception"

\* A first stage that accepts any text that is not blank.
MammothStage_AnyText(file) ==
    LET got == MammothRawText(file)
    IN  IF got.kind = "raise"
        THEN IF Catches(MammothHandler, got.cls) THEN NoCall ELSE got
        ELSE LET text == Strip(got.value)
             IN  IF text # <<>> THEN Return(text) ELSE NoCall

MammothStage(file) ==
    LET got == MammothRawText(file)
    IN  IF got.kind = "raise"
        THEN IF Catches(MammothHandler, got.cls) THEN NoCall ELSE got
        ELSE LET text == Strip(got.value)
             IN  IF text # <<>> /\ Len(text) > MinMammothLen THEN Return(text) ELSE NoCall

\* Lines 55-107: the python-docx fallback.
DocxStage(file) ==
    LET got == DocxDocument(file)
    IN  IF got.kind = "raise"
        THEN IF Catches(DocxHandler, got.cls)
             THEN Return(DocxErrorSentinel(got.msg))
             ELSE got
        ELSE LET doc == got.value
                 first == ParagraphParts(doc.paragraphs) \o TableParts(doc.tables)
                 text_parts == IF first = <<>>
                               THEN RunParts(doc.paragraphs) \o TableRunParts(doc.tables)
                               ELSE first
                 result == Join(<<"\n">>, text_parts)
             IN  IF ~NonBlank(result) THEN Return(NoTextSentinel) ELSE Return(result)

extract_text_from_docx(file) ==
    LET m == MammothStage(file)
    IN  IF m.kind = "none" THEN DocxStage(file) ELSE m

\* Image.open + pytesseract.image_to_string
OcrImage(file) ==
    IF file.fmt = "image" THEN Return(file.ocrtext)
    ELSE Raise("UnidentifiedImageError", <<"cannot identify image file">>)

\* An image reader that answers a failed read with a placeholder text.
extract_text_from_image_Silent(file, ocr) ==
    LET probe == ProbeTesseract(ocr)
        got == OcrImage(file)
    IN  IF probe.kind = "raise" \/ got.kind = "raise"
        THEN Return(<<Warn, " No text could be read from the image">>)
        ELSE got

extract_text_from_image(file, ocr) ==
    LET probe == ProbeTesseract(ocr)
    IN  IF probe.kind = "raise"
        THEN Raise("ValueError",
                   <<"Image text extraction is not available: ">> \o probe.msg
                   \o <<". Please install Tesseract OCR">>)
        ELSE LET got == OcrImage(file)
             IN  IF got.kind = "raise"
                 THEN Raise("ValueError",
                            <<"Failed to extract text from image: ">> \o got.msg)
                 ELSE got

\* open(file_path, 'r', encoding='utf-8').read()
extract_text_from_txt(file) ==
    IF file.fmt = "text" THEN Return(file.text)
    ELSE Raise("UnicodeDecodeError", <<"'utf-8' codec can't decode byte">>)

Dot(s) == <<".">> \o s
ExtPdf == Dot(<<"p", "d", "f">>)
ExtDocx == Dot(<<"d", "o", "c", "x">>)
ExtTxt == Dot(<<"t", "x", "t">>)
ImageExts == {Dot(<<"j", "p", "g">>), Dot(<<"j", "p", "e", "g">>), Dot(<<"p", "n", "g">>)}

\* Dispatch on the extension as written, without lower-casing it.
DispatchExt_CaseSensitive(path) == SplitExt(path)

\* The extension extract_text dispatches on (line 130).
DispatchExt(path) == Lower(SplitExt(path))

\* A (text, tag) pair, or the exception of the branch taken.
Tagged(got, tag) ==
    IF got.kind = "raise" THEN got ELSE Return([text |-> got.value, tag |-> tag])

extract_text(path, file, ocr) ==
    LET ext == DispatchExt(path)
    IN  IF ext = ExtPdf THEN Tagged(extract_text_from_pdf(file), "pdf")
        ELSE IF ext = ExtDocx THEN Tagged(extract_text_from_docx(file), "docx")
        ELSE IF ext \in ImageExts
        THEN LET probe == ProbeTesseract(ocr)
                 got == IF probe.kind = "raise" THEN probe
                        ELSE extract_text_from_image(file, ocr)
             IN  IF got.kind = "raise"
                 THEN Raise("ValueError",
                            <<"Image file upload is not supported: ">> \o got.msg
                            \o <<". Please use PDF, DOCX, or TXT files instead. ">>)
                 ELSE Tagged(got, "image")
        ELSE IF ext = ExtTxt THEN Tagged(extract_text_from_txt(file), "txt")
        ELSE LET image_support == IF ProbeTesseract(ocr).kind = "return"
                                  THEN <<" and images (JPG, PNG)">> ELSE <<>>
             IN  Raise("ValueError",
                       <<"Unsupported file type: ">> \o ext
                       \o <<". Supported formats: PDF, DOCX, TXT">> \o image_support)


-----------------------------------------------------------------------------
(* The inputs the extractor is run on *)

None == [some |-> FALSE]
Some(v) == [some |-> TRUE, v |-> v]

\* The longest PDF, in pages.
MaxPages == 2

\* All sequences over S of length at most n.
RECURSIVE SeqsUpTo(_, _)
SeqsUpTo(S, n) ==
    IF n = 0 THEN {<<>>}
    ELSE LET shorter == SeqsUpTo(S, n - 1)
         IN  shorter \cup {Append(q, e) : q \in shorter, e \in S}

PageResults == {None, Some(<<>>), Some(<<"a", " ">>)}
PdfFiles == {[fmt |-> "pdf", pages |-> ps] : ps \in SeqsUpTo(PageResults, MaxPages)}

Para(text, runs) == [text |-> text, runs |-> runs]
Blank == <<" ">>
Word(c) == <<c, c>>

\* Documents as python-docx presents them: paragraphs with their runs, and
\* tables as rows of cells, a cell being its paragraphs.
Docs == {
    [paragraphs |-> <<>>, tables |-> <<>>],
    [paragraphs |-> <<Para(Blank, <<Blank>>)>>, tables |-> <<>>],
    [paragraphs |-> <<Para(<<" ", "p", " ">>, <<<<" ", "p", " ">>>>), Para(Blank, <<>>), Para(Word("q"), <<Word("q")>>)>>,
     tables |-> <<>>],
    [paragraphs |-> <<Para(Blank, <<Blank, <<" ", "r">>>>)>>, tables |-> <<>>],
    [paragraphs |-> <<>>,
     tables |-> << << << <<Para(Word("a"), <<>>), Para(<<" ", "b">>, <<>>)>>,
                         <<Para(Blank, <<>>)>>,
                         <<Para(Word("c"), <<>>)>> >>,
                      << <<Para(Blank, <<>>)>>, <<>> >> >> >>],
    [paragraphs |-> <<Para(Word("p"), <<Word("p")>>)>>,
     tables |-> << << << <<Para(Word("a"), <<Word("a")>>)>> >> >> >>],
    [paragraphs |-> <<Para(<<>>, <<>>)>>,
     tables |-> << << << <<Para(Blank, <<Word("s"), Blank>>)>> >> >> >>]
}

MammothResults == {
    Raise("KeyError", <<"word/document.xml">>),
    Return(<<>>),
    Return(<<" ">> \o Rep("x", MinMammothLen) \o <<"\n">>),
    Return(<<" ">> \o Rep("x", MinMammothLen + 1) \o <<"\n">>)
}
DocResults ==
    {Raise("PackageNotFoundError", <<"Package not found">>)} \cup {Return(d) : d \in Docs}
DocxFiles ==
    {[fmt |-> "docx", mammoth |-> m, doc |-> d] : m \in MammothResults, d \in DocResults}

TextFiles == {[fmt |-> "text", text |-> t] : t \in {<<>>, <<"J", "\n", "P">>}}
ImageFiles == {[fmt |-> "image", ocrtext |-> t] : t \in {<<>>, <<"o", "c", "r">>}}
BinaryFiles == {[fmt |-> "binary"]}
Files == PdfFiles \cup DocxFiles \cup TextFiles \cup ImageFiles \cup BinaryFiles

TmpStem == <<"/", "t", "/", "a">>
RawExts == {
    <<>>,
    Dot(<<"p", "d", "f">>), Dot(<<"P", "D", "F">>), Dot(<<"P", "d", "f">>),
    Dot(<<"d", "o", "c", "x">>), Dot(<<"D", "O", "C", "X">>),
    Dot(<<"t", "x", "t">>), Dot(<<"T", "x", "T">>),
    Dot(<<"j", "p", "g">>), Dot(<<"J", "P", "E", "G">>), Dot(<<"p", "n", "g">>),
    Dot(<<"d", "o", "c">>), Dot(<<"D", "O", "C">>), Dot(<<"r", "t", "f">>),
    Dot(<<"t", "x", "t">>) \o Dot(<<"p", "d", "f">>),
    Dot(<<"p", "d", "f">>) \o Dot(<<"B", "a", "k">>)
}
Paths ==
    {TmpStem \o e : e \in RawExts}
    \cup {<<"/", "t">> \o ExtPdf \o <<"/", "a">>, <<"/", "t", "/">> \o ExtPdf}

-----------------------------------------------------------------------------
(* The extractor, run on every input *)

AnalyzerIdle ==
    /\ a_env = NoCall
    /\ a_out = NoCall
    /\ a_calls = 0
    /\ s_in = <<>>
    /\ s_out = NoCall

\* An empty store, no temporary file, no request.
StoreIdle ==
    /\ sessions = <<>>
    /\ files = {}
    /\ next_tmp = 0
    /\ clock = 0
    /\ req = [pc |-> "idle"]
    /\ resp = NoCall
    /\ last_call = NoCall
    /\ txns = <<>>

InitExtract ==
    /\ tesseract \in BOOLEAN
    /\ TESSERACT_AVAILABLE = tesseract
    /\ x_path \in Paths
    /\ x_file \in Files
    /\ x_out = NoCall
    /\ d_out = NoCall
    /\ AnalyzerIdle
    /\ StoreIdle

\* extract_text(x_path)
ExtractTextCall ==
    /\ x_out = NoCall
    /\ x_out' = extract_text(x_path, x_file, tesseract)
    /\ UNCHANGED <<tesseract, TESSERACT_AVAILABLE, x_path, x_file, d_out, avars, svars>>

\* extract_text_from_docx(x_path), called on its own
ExtractDocxCall ==
    /\ d_out = NoCall
    /\ d_out' = extract_text_from_docx(x_file)
    /\ UNCHANGED <<tesseract, TESSERACT_AVAILABLE, x_path, x_file, x_out, avars, svars>>

\* The OCR engine is installed or removed while the process runs.
TesseractChanges ==
    /\ tesseract' = ~tesseract
    /\ x_out' = NoCall
    /\ UNCHANGED <<TESSERACT_AVAILABLE, x_path, x_file, d_out, avars, svars>>

NextExtract == ExtractTextCall \/ ExtractDocxCall \/ TesseractChanges

SpecExtract == InitExtract /\ [][NextExtract]_vars


-----------------------------------------------------------------------------
(* JSON values, as json.loads builds them and as the functions return them *)

\* A value carries one field, named after its type: a number, a string (its
\* characters), a list (its items), an object (its mapping) or null.
JNum(n) == [num |-> n]
JStr(chunks) == [str |-> chunks]
JList(items) == [list |-> items]
JObj(f) == [obj |-> f]
JBool(b) == [bool |-> b]
JNull == [null |-> TRUE]
IsNum(v) == "num" \in DOMAIN v
IsList(v) == "list" \in DOMAIN v
IsObj(v) == "obj" \in DOMAIN v

\* json.dumps / json.loads: a JSON document is one element of the reply text,
\* the serialisation of its value.
Dumps(v) == ToString(v)

-----------------------------------------------------------------------------
(* Analyzer: openai_utils.py analyze_cv *)

\* Line 66
required_keys ==
    <<"score", "missing_skills", "strengths", "experience_gaps", "recommendations", "summary">>

DefaultScore == 50

\* A back-fill that tells only the score from the lists.
DefaultFor_ListUnlessScore(key) ==
    IF key # "score" THEN JList(<<>>) ELSE JNum(DefaultScore)

\* Line 69: the value given to a required key the reply omits.
DefaultFor(key) ==
    IF key # "score" /\ key # "summary" THEN JList(<<>>)
    ELSE IF key = "score" THEN JNum(DefaultScore)
    ELSE JStr(<<"Analysis incomplete">>)

\* Lines 6-11
get_openai_client(credential) ==
    IF ~credential
    THEN Raise("ValueError", <<"OPENAI_API_KEY environment variable is not set">>)
    ELSE Return("client")

\* The backquote character.
BQ == "BACKQUOTE"
Fence == <<BQ, BQ, BQ>>
FenceJson == Fence \o <<"j", "s", "o", "n">>

\* Lines 54-61 (and 139-146): trim, drop a leading fence-with-json, drop a
\* trailing fence, trim.
StripFence(content) ==
    LET c0 == Strip(content)
        c1 == IF StartsWith(c0, FenceJson) THEN SubSeq(c0, Len(FenceJson) + 1, Len(c0)) ELSE c0
        c2 == IF EndsWith(c1, Fence) THEN SubSeq(c1, 1, Len(c1) - Len(Fence)) ELSE c1
    IN  Strip(c2)

\* Lines 67-69: back-fill of the keys the parsed object omits.  On a value
\* that is no object the membership test or the item assignment raises
\* TypeError (a list or a string holding every key name fails at line 72).
FillRequired(result) ==
    IF IsObj(result)
    THEN Return([k \in (DOMAIN result.obj) \cup {required_keys[i] : i \in 1..Len(required_keys)} |->
                    IF k \in DOMAIN result.obj THEN result.obj[k] ELSE DefaultFor(k)])
    ELSE Raise("TypeError", <<"object does not support item assignment">>)

\* dict.get(key, [])
Get(d, key, default) == IF key \in DOMAIN d THEN d[key] ELSE default

\* Lines 71-78: the returned tuple
\* (score, missing_skills, summary, strengths, experience_gaps, recommendations).
ResultTuple(d) ==
    << d["score"], d["missing_skills"], d["summary"],
       Get(d, "strengths", JList(<<>>)),
       Get(d, "experience_gaps", JList(<<>>)),
       Get(d, "recommendations", JList(<<>>)) >>

\* Lines 82-89
ParseFailedTuple ==
    << JNum(DefaultScore),
       JList(<<JStr(<<"Analysis parsing failed">>)>>),
       JStr(<<"Could not parse AI analysis response">>),
       JList(<<JStr(<<"Please try again">>)>>),
       JList(<<JStr(<<"Technical issue occurred">>)>>),
       JList(<<JStr(<<"Contact support if problem persists">>)>>) >>

\* Lines 93-100
ApiErrorTuple(msg) ==
    << JNum(DefaultScore),
       JList(<<JStr(<<"Unable to analyze - API error">>)>>),
       JStr(<<"Analysis failed: ">> \o msg),
       JList(<<>>),
       JList(<<>>),
       JList(<<JStr(<<"Please check your OpenAI API key and try again">>)>>) >>

\* No handler for the parser's exception.
AnalyzeFirstHandler_KeyError == "KeyError"
\* A first handler that names the parser exception's base class.
AnalyzeFirstHandler_ValueError == "ValueError"

\* The handlers of analyze_cv, in the order of the source (lines 79 and 90).
AnalyzeFirstHandler == "JSONDecodeError"
\* A second handler that takes file system failures only.
AnalyzeSecondHandler_OSError == "OSError"
AnalyzeSecondHandler == "Exception"


-----------------------------------------------------------------------------
(* The replies the external service is run with *)

RequiredKeySet == {required_keys[i] : i \in 1..Len(required_keys)}

\* Lines 152-157: the keys of the enhancer's mapping.
suggestion_keys ==
    <<"enhanced_summary", "skill_additions", "experience_enhancements",
      "formatting_suggestions", "keyword_optimization", "achievement_focus">>
SuggestionKeySet == {suggestion_keys[i] : i \in 1..Len(suggestion_keys)}

\* What a reply may carry under a key: well-formed values ("good"), boundary
\* values ("edge") and values of the wrong range or type ("odd").
Profiles == {"good", "edge", "odd"}
FieldValue(p, k) ==
    CASE k = "score" ->
            (CASE p = "good" -> JNum(85) [] p = "edge" -> JNum(0) [] OTHER -> JNum(150))
      [] k = "summary" ->
            (CASE p = "good" -> JStr(<<"Strong match">>) [] p = "edge" -> JStr(<<>>) [] OTHER -> JNull)
      [] k = "missing_skills" ->
            (CASE p = "good" -> JList(<<JStr(<<"Go">>), JStr(<<"SQL">>)>>)
               [] p = "edge" -> JList(<<>>)
               [] OTHER -> JNull)
      [] k = "enhanced_summary" ->
            (CASE p = "good" -> JStr(<<"Seasoned engineer">>) [] p = "edge" -> JStr(<<>>) [] OTHER -> JNull)
      [] OTHER ->
            (CASE p = "good" -> JList(<<JStr(<<k>>)>>)
               [] p = "edge" -> JList(<<>>)
               [] OTHER -> JStr(<<"n/a">>))

AnalysisObjects ==
    {JObj([k \in S |-> FieldValue(p, k)]) : S \in SUBSET RequiredKeySet, p \in Profiles}
SuggestionObjects ==
    {JObj([k \in S |-> FieldValue("good", k)]) : S \in SUBSET SuggestionKeySet}
    \cup {JObj([k \in {"error", "enhanced_summary"} |-> JStr(<<"from the reply">>)])}
NonObjects ==
    { JNull, JNum(7), JList(<<>>), JStr(<<"score">>),
      JList([i \in 1..Len(required_keys) |-> JStr(<<required_keys[i]>>)]) }
\* An object whose score is a list: a value no Integer column can bind.
UnbindableReply ==
    JObj([k \in {"score", "summary"} |->
            IF k = "score" THEN JList(<<JNum(85)>>) ELSE JStr(<<"Strong match">>)])
JsonDocs == AnalysisObjects \cup SuggestionObjects \cup NonObjects \cup {UnbindableReply}

\* The text of every document, and the parser's table from text to value.
JsonTexts == {Dumps(v) : v \in JsonDocs}
JsonTable == [text \in JsonTexts |-> CHOOSE v \in JsonDocs : Dumps(v) = text]

\* json.loads(content): surrounding white space is allowed, anything else
\* than one document is a JSONDecodeError.
JsonLoads(content) ==
    LET c == Strip(content)
    IN  IF Len(c) = 1 /\ c[1] \in JsonTexts
        THEN Return(JsonTable[c[1]])
        ELSE Raise("JSONDecodeError", <<"Expecting value: line 1 column 1 (char 0)">>)

Prefixes == {<<>>, FenceJson, FenceJson \o <<"\n">>, Fence, Fence \o <<"\n">>, <<" ", "\n">>}
Suffixes == {<<>>, Fence, <<"\n">> \o Fence, <<"\n", " ">>}
Prose == "Sure! Here is the analysis you asked for"
Bodies == {<<t>> : t \in JsonTexts} \cup {<<>>, <<Prose>>}
Contents == {p \o b \o x : p \in Prefixes, b \in Bodies, x \in Suffixes}

\* response.choices[0].message.content: a string, or None.
ServiceResults ==
    {Raise("APIConnectionError", <<"Connection error.">>), Return(None)}
    \cup {Return(Some(c)) : c \in Contents}

Envs ==
    {[credential |-> FALSE, service |-> Return(None)]}
    \cup {[credential |-> TRUE, service |-> r] : r \in ServiceResults}

-----------------------------------------------------------------------------

\* response.choices[0].message.content.strip() (lines 45-54, 130-139)
ServiceContent(env) ==
    LET reply == env.service
    IN  IF reply.kind = "raise" THEN reply
        ELSE IF ~reply.value.some
        THEN Raise("AttributeError", <<"'NoneType' object has no attribute 'strip'">>)
        ELSE Return(Strip(reply.value.v))

\* Lines 44-78: the body of analyze_cv's try block.
AnalyzeTry(env) ==
    LET client == get_openai_client(env.credential)
        content == ServiceContent(env)
        parsed == JsonLoads(StripFence(content.value))
        filled == FillRequired(parsed.value)
    IN  IF client.kind = "raise" THEN client
        ELSE IF content.kind = "raise" THEN content
        ELSE IF parsed.kind = "raise" THEN parsed
        ELSE IF filled.kind = "raise" THEN filled
        ELSE Return(ResultTuple(filled.value))

\* A create call that is made again when it fails.
CreateCalls_RetryOnError(reply) == IF reply.kind = "raise" THEN 2 ELSE 1

\* Lines 45-53: the calls of client.chat.completions.create one run of the
\* try block makes once it has a client: one, whatever the call gives (the
\* block has no loop and both handlers return).
CreateCalls(reply) == 1

\* Lines 44-53: get_openai_client raises before any call when the credential
\* is missing.
AnalyzeServiceCalls(env) ==
    IF get_openai_client(env.credential).kind = "raise" THEN 0
    ELSE CreateCalls(env.service)

\* Lines 13-100
analyze_cv(env) ==
    LET body == AnalyzeTry(env)
    IN  IF body.kind = "return" THEN body
        ELSE IF Catches(AnalyzeFirstHandler, body.cls) THEN Return(ParseFailedTuple)
        ELSE IF Catches(AnalyzeSecondHandler, body.cls) THEN Return(ApiErrorTuple(body.msg))
        ELSE body

\* Lines 149-159
SuggestionDefaults(msg) ==
    JObj([k \in SuggestionKeySet \cup {"error"} |->
        CASE k = "enhanced_summary" ->
                JStr(<<"Professional with diverse experience and growing skill set.">>)
          [] k = "skill_additions" ->
                JList(<<JStr(<<"Present new skills with context and examples">>)>>)
          [] k = "experience_enhancements" ->
                JList(<<JStr(<<"Quantify achievements with numbers and metrics">>)>>)
          [] k = "formatting_suggestions" ->
                JList(<<JStr(<<"Use consistent formatting and clear section headers">>)>>)
          [] k = "keyword_optimization" ->
                JList(<<JStr(<<"Include industry-specific keywords from job descriptions">>)>>)
          [] k = "achievement_focus" ->
                JList(<<JStr(<<"Highlight impact and results achieved">>)>>)
          [] OTHER -> JStr(<<"Enhancement failed: ">> \o msg)])

\* Lines 129-148: the body of the enhancer's try block; the parsed value is
\* returned as it is.
SuggestTry(env) ==
    LET client == get_openai_client(env.credential)
        content == ServiceContent(env)
    IN  IF client.kind = "raise" THEN client
        ELSE IF content.kind = "raise" THEN content
        ELSE JsonLoads(StripFence(content.value))

\* The enhancer with the analyzer's first handler only.
SuggestHandler_JsonOnly == "JSONDecodeError"
\* Line 149
SuggestHandler == "Exception"

\* Lines 102-159; the prompt (lines 104-126) joins missing_skills, a list of
\* strings.
generate_cv_improvement_suggestions(env, missing_skills) ==
    LET prompt == <<"Missing Skills Identified: ">> \o Join(<<", ">>, missing_skills)
        body == SuggestTry(env)
    IN  IF body.kind = "return" THEN body
        ELSE IF Catches(SuggestHandler, body.cls) THEN Return(SuggestionDefaults(body.msg))
        ELSE body

MissingSkillsArgs == {<<>>, <<<<"Go">>>>, <<<<"Go">>, <<"SQL">>>>}

ExtractorIdle ==
    /\ tesseract = TRUE
    /\ TESSERACT_AVAILABLE = TRUE
    /\ x_path = <<>>
    /\ x_file = [fmt |-> "binary"]
    /\ x_out = NoCall
    /\ d_out = NoCall

InitAnalyze ==
    /\ a_env \in Envs
    /\ a_out = NoCall
    /\ a_calls = 0
    /\ s_in = <<>>
    /\ s_out = NoCall
    /\ ExtractorIdle
    /\ StoreIdle

\* analyze_cv(cv_text, job_title, job_desc)
AnalyzeCall ==
    /\ a_out = NoCall
    /\ a_out' = analyze_cv(a_env)
    /\ a_calls' = AnalyzeServiceCalls(a_env)
    /\ UNCHANGED <<a_env, s_in, s_out, xvars, svars>>

\* generate_cv_improvement_suggestions(cv_text, additional_info, missing_skills)
SuggestCall ==
    /\ s_out = NoCall
    /\ \E ms \in MissingSkillsArgs :
        /\ s_in' = ms
        /\ s_out' = generate_cv_improvement_suggestions(a_env, ms)
    /\ UNCHANGED <<a_env, a_out, a_calls, xvars, svars>>

NextAnalyze == AnalyzeCall \/ SuggestCall

SpecAnalyze == InitAnalyze /\ [][NextAnalyze]_vars


-----------------------------------------------------------------------------
(* Properties of the extractor *)

SupportedTags == {"pdf", "docx", "txt", "image"}

\* The extension of the path, lower-cased: what the dispatch is claimed to read.
LoweredExt == Lower(SplitExt(x_path))

TagOfExt(ext) ==
    CASE ext = ExtPdf -> "pdf"
      [] ext = ExtDocx -> "docx"
      [] ext = ExtTxt -> "txt"
      [] ext \in ImageExts -> "image"
      [] OTHER -> "unsupported"

\* C1: extract_text dispatches on the lower-cased extension alone.  Whenever
\* it returns, the tag is the one of that extension and one of pdf, docx, txt,
\* image; a file of the format its extension names is extracted (an image
\* when OCR is available); every other extension raises a ValueError whose
\* message contains the lower-cased extension.
C1_DispatchOnLoweredExtension ==
    x_out.kind # "none" =>
        /\ x_out.kind = "return" =>
            /\ x_out.value.tag \in SupportedTags
            /\ x_out.value.tag = TagOfExt(LoweredExt)
        /\ (LoweredExt = ExtPdf /\ x_file.fmt = "pdf") => x_out.kind = "return"
        /\ LoweredExt = ExtDocx => x_out.kind = "return"
        /\ (LoweredExt = ExtTxt /\ x_file.fmt = "text") => x_out.kind = "return"
        /\ (LoweredExt \in ImageExts /\ x_file.fmt = "image" /\ tesseract)
            => x_out.kind = "return"
        /\ TagOfExt(LoweredExt) = "unsupported" =>
            /\ x_out.kind = "raise"
            /\ x_out.cls = "ValueError"
            /\ Contains(x_out.msg, LoweredExt)

\* C1 witness: a path whose extension is written in upper case was extracted
\* as a PDF.
C1_Witness ==
    /\ x_out.kind = "return"
    /\ x_out.value.tag = "pdf"
    /\ SplitExt(x_path) # ExtPdf

\* C2: extract_text_from_docx never raises.  Whatever the converter and the
\* structural reader do, it returns a string, and when both fail the string
\* is a sentinel that begins with the warning marker.
C2_DocxNeverRaises ==
    d_out.kind # "none" =>
        /\ d_out.kind = "return"
        /\ d_out.value \in Seq(STRING)
        /\ (MammothRawText(x_file).kind = "raise" /\ DocxDocument(x_file).kind = "raise")
            => (Len(d_out.value) > 0 /\ Head(d_out.value) = Warn)

\* C2 witness: a byte stream that is no document gave the sentinel.
C2_Witness ==
    /\ x_file.fmt = "binary"
    /\ d_out.kind = "return"
    /\ Head(d_out.value) = Warn

-----------------------------------------------------------------------------
(* Properties of the analyzer and the enhancer *)

\* The call reached the parser: credential present, the service answered
\* with a text.
GotContent ==
    /\ a_env.credential
    /\ a_env.service.kind = "return"
    /\ a_env.service.value.some

\* What the parser makes of the reply once the fence is stripped.
Parsed == JsonLoads(StripFence(Strip(a_env.service.value.v)))

Text(chunk) == JStr(<<chunk>>)
StrList(chunk) == JList(<<JStr(<<chunk>>)>>)
EmptyList == JList(<<>>)

\* C3: a reply that is not valid JSON once its code fence is stripped makes
\* analyze_cv return, without raising, the fixed placeholder tuple.
C3_MalformedJsonGivesPlaceholder ==
    (a_out.kind # "none" /\ GotContent /\ Parsed.kind = "raise") =>
        a_out = Return(<< JNum(50),
                          StrList("Analysis parsing failed"),
                          Text("Could not parse AI analysis response"),
                          StrList("Please try again"),
                          StrList("Technical issue occurred"),
                          StrList("Contact support if problem persists") >>)

\* C3 witness: the service answered in prose and the call has returned.
C3_Witness ==
    /\ a_out.kind = "return"
    /\ GotContent
    /\ a_env.service.value.v = <<Prose>>

\* A failure of analyze_cv that is not a malformed reply: no credential, a
\* service error, a reply without text, or a JSON value that is no object.
OtherFailure ==
    \/ ~a_env.credential
    \/ a_env.service.kind = "raise"
    \/ ~a_env.service.value.some
    \/ (Parsed.kind = "return" /\ ~IsObj(Parsed.value))

\* The text of the failures whose text the environment fixes.
KnownFailureText ==
    IF ~a_env.credential THEN <<"OPENAI_API_KEY environment variable is not set">>
    ELSE a_env.service.msg

RemediationHint == StrList("Please check your OpenAI API key and try again")

\* C4 as claimed: on such a failure the tuple has score 50, the error text in
\* the summary, and empty missing-skills, strengths and experience-gaps
\* lists, the remediation hint being the only list content.
C4_AsClaimed ==
    (a_out.kind # "none" /\ OtherFailure) =>
        /\ a_out.kind = "return"
        /\ a_out.value[1] = JNum(50)
        /\ a_out.value[2] = EmptyList
        /\ a_out.value[4] = EmptyList
        /\ a_out.value[5] = EmptyList
        /\ a_out.value[6] = RemediationHint

\* C4, amended: on such a failure no exception escapes and the tuple has
\* score 50, missing_skills ['Unable to analyze - API error'], the summary
\* 'Analysis failed: ' followed by the error text, empty strengths and
\* experience-gaps lists, and the remediation hint as recommendations.
C4_DegradedTuple ==
    (a_out.kind # "none" /\ OtherFailure) =>
        /\ a_out.kind = "return"
        /\ a_out.value[1] = JNum(50)
        /\ a_out.value[2] = StrList("Unable to analyze - API error")
        /\ StartsWith(a_out.value[3].str, <<"Analysis failed: ">>)
        /\ (~a_env.credential \/ a_env.service.kind = "raise")
            => a_out.value[3] = JStr(<<"Analysis failed: ">> \o KnownFailureText)
        /\ a_out.value[4] = EmptyList
        /\ a_out.value[5] = EmptyList
        /\ a_out.value[6] = RemediationHint

\* C4 witness: the credential is missing and the call has returned.
C4_Witness ==
    /\ a_out.kind = "return"
    /\ ~a_env.credential

\* The position of each field in the returned tuple (lines 71-78).
TuplePos(key) ==
    CASE key = "score" -> 1
      [] key = "missing_skills" -> 2
      [] key = "summary" -> 3
      [] key = "strengths" -> 4
      [] key = "experience_gaps" -> 5
      [] key = "recommendations" -> 6

\* C5: when the reply is a JSON object, every required field it carries is
\* returned as it is, and every field it omits is returned as its default:
\* 50 for score, the 'incomplete' message for summary, an empty list for the
\* four list fields.
C5_MissingFieldsDefaulted ==
    (a_out.kind # "none" /\ GotContent /\ Parsed.kind = "return" /\ IsObj(Parsed.value)) =>
        /\ a_out.kind = "return"
        /\ Len(a_out.value) = 6
        /\ \A key \in RequiredKeySet :
            a_out.value[TuplePos(key)] =
                IF key \in DOMAIN Parsed.value.obj THEN Parsed.value.obj[key]
                ELSE IF key = "score" THEN JNum(50)
                ELSE IF key = "summary" THEN Text("Analysis incomplete")
                ELSE EmptyList

\* C5 witness: the reply carried the score and the strengths and omitted the
\* other four fields.
C5_Witness ==
    /\ a_out.kind = "return"
    /\ GotContent
    /\ Parsed.kind = "return"
    /\ IsObj(Parsed.value)
    /\ DOMAIN Parsed.value.obj = {"score", "strengths"}

\* C6: the mapping the enhancer returns holds all six suggestion keys,
\* whatever the service replied.
C6_AllSuggestionKeys ==
    s_out.kind # "none" =>
        /\ s_out.kind = "return"
        /\ IsObj(s_out.value)
        /\ SuggestionKeySet \subseteq DOMAIN s_out.value.obj

\* A failure inside the enhancer: no credential, a service error, a reply
\* without text, or a reply the parser rejects.
SuggestFailure ==
    \/ ~a_env.credential
    \/ a_env.service.kind = "raise"
    \/ ~a_env.service.value.some
    \/ Parsed.kind = "raise"

\* C7: on any failure inside the enhancer no exception escapes and the
\* result is the fixed default mapping of the six suggestion keys plus an
\* 'error' key holding 'Enhancement failed: ' and the failure text; without a
\* failure the result is the parsed reply with nothing added.
C7_FailureGivesDefaultsWithError ==
    s_out.kind # "none" =>
        /\ SuggestFailure =>
            /\ s_out.kind = "return"
            /\ IsObj(s_out.value)
            /\ DOMAIN s_out.value.obj = SuggestionKeySet \cup {"error"}
            /\ StartsWith(s_out.value.obj["error"].str, <<"Enhancement failed: ">>)
            /\ (~a_env.credential \/ a_env.service.kind = "raise") =>
                s_out.value.obj["error"] = JStr(<<"Enhancement failed: ">> \o KnownFailureText)
            /\ s_out.value.obj["enhanced_summary"] =
                Text("Professional with diverse experience and growing skill set.")
            /\ s_out.value.obj["skill_additions"] =
                StrList("Present new skills with context and examples")
            /\ s_out.value.obj["achievement_focus"] =
                StrList("Highlight impact and results achieved")
        /\ ~SuggestFailure => s_out = Return(Parsed.value)

\* C7 witness: the service failed and the enhancer returned a mapping with an
\* 'error' key.
C7_Witness ==
    /\ s_out.kind = "return"
    /\ a_env.credential
    /\ a_env.service.kind = "raise"
    /\ "error" \in DOMAIN s_out.value.obj


-----------------------------------------------------------------------------
(* Session store: database.py CVSession, crud.py CVSessionCRUD *)

\* A column holds NULL or a value; values are written as JSON values are.
NULL == JNull

\* The Integer, String and Text columns (database.py lines 14-30): the
\* driver binds numbers, strings and NULL to them, and fails on a list or a
\* mapping.  The JSON columns take any value.
Bindable(v) == ~IsList(v) /\ ~IsObj(v)

\* A new row that starts with a score of 0.
NewRow_ScoreZero(session_id, cv_text, cv_file_type, cv_file_path, now) ==
    [ id |-> session_id, cv_text |-> cv_text, cv_file_type |-> cv_file_type,
      cv_file_path |-> cv_file_path,
      job_title |-> NULL, job_description |-> NULL,
      original_score |-> JNum(0), new_score |-> NULL,
      missing_skills |-> NULL, strengths |-> NULL, experience_gaps |-> NULL,
      recommendations |-> NULL, summary |-> NULL,
      additional_info |-> NULL, improvement_suggestions |-> NULL,
      enhanced_cv_path |-> NULL,
      created_at |-> JNum(now), updated_at |-> JNum(now) ]

\* Lines 13-21 of crud.py: the row of a new session; every column the
\* constructor is not given is NULL, the two timestamps default to now.
NewRow(session_id, cv_text, cv_file_type, cv_file_path, now) ==
    [ id |-> session_id, cv_text |-> cv_text, cv_file_type |-> cv_file_type,
      cv_file_path |-> cv_file_path,
      job_title |-> NULL, job_description |-> NULL,
      original_score |-> NULL, new_score |-> NULL,
      missing_skills |-> NULL, strengths |-> NULL, experience_gaps |-> NULL,
      recommendations |-> NULL, summary |-> NULL,
      additional_info |-> NULL, improvement_suggestions |-> NULL,
      enhanced_cv_path |-> NULL,
      created_at |-> JNum(now), updated_at |-> JNum(now) ]

\* A store operation gives its outcome and the table it leaves.
Did(out, table) == [out |-> out, sessions |-> table]

\* The table with one more row.
WithRow(table, session_id, row) ==
    [k \in (DOMAIN table) \cup {session_id} |-> IF k = session_id THEN row ELSE table[k]]

\* The table without a row.
WithoutRow(table, session_id) ==
    [k \in (DOMAIN table) \ {session_id} |-> table[k]]

\* crud.py lines 11-22; the primary key makes a second insert of an id fail.
create_session(table, session_id, cv_text, cv_file_type, cv_file_path, now) ==
    IF session_id \in DOMAIN table
    THEN Did(Raise("IntegrityError", <<"UNIQUE constraint failed: cv_sessions.id">>), table)
    ELSE LET row == NewRow(session_id, cv_text, cv_file_type, cv_file_path, now)
         IN  Did(Return(row), WithRow(table, session_id, row))

\* crud.py lines 24-27
get_session(table, session_id) ==
    IF session_id \in DOMAIN table THEN table[session_id] ELSE NULL

\* A list column that grows by what it is given.
AssignList_Appending(old, new) ==
    IF IsList(old) /\ IsList(new) THEN JList(old.list \o new.list) ELSE new

\* crud.py lines 48-51: a list column is given its new value.
AssignList(old, new) == new

\* database.py line 39 (onupdate): the commit writes the row, and stamps
\* updated_at, only when some column was given another value than it held.
Commit(row, assigned, now) ==
    IF assigned = row THEN row ELSE [assigned EXCEPT !.updated_at = JNum(now)]

\* An update that inserts the row it does not find.
update_analysis_Upsert(table, session_id, a, now) ==
    LET row == [NewRow(session_id, NULL, NULL, NULL, now) EXCEPT
                    !.job_title = a.job_title,
                    !.job_description = a.job_description,
                    !.original_score = a.original_score,
                    !.missing_skills = a.missing_skills,
                    !.strengths = a.strengths,
                    !.experience_gaps = a.experience_gaps,
                    !.recommendations = a.recommendations,
                    !.summary = a.summary]
        known == IF session_id \in DOMAIN table THEN table
                 ELSE WithRow(table, session_id, row)
        stored == Commit(known[session_id],
                         [row EXCEPT !.cv_text = known[session_id].cv_text,
                                     !.cv_file_type = known[session_id].cv_file_type,
                                     !.cv_file_path = known[session_id].cv_file_path,
                                     !.new_score = known[session_id].new_score,
                                     !.additional_info = known[session_id].additional_info,
                                     !.improvement_suggestions =
                                        known[session_id].improvement_suggestions,
                                     !.enhanced_cv_path = known[session_id].enhanced_cv_path,
                                     !.created_at = known[session_id].created_at,
                                     !.updated_at = known[session_id].updated_at],
                         now)
    IN  Did(Return(stored), [known EXCEPT ![session_id] = stored])

\* crud.py lines 29-55; a is the argument set.
update_analysis(table, session_id, a, now) ==
    IF session_id \notin DOMAIN table THEN Did(Return(NULL), table)
    ELSE IF ~(Bindable(a.job_title) /\ Bindable(a.job_description)
              /\ Bindable(a.original_score) /\ Bindable(a.summary))
    THEN Did(Raise("InterfaceError", <<"Error binding parameter">>), table)
    ELSE LET row == table[session_id]
             assigned ==
                [row EXCEPT
                    !.job_title = a.job_title,
                    !.job_description = a.job_description,
                    !.original_score = a.original_score,
                    !.missing_skills = AssignList(row.missing_skills, a.missing_skills),
                    !.strengths = AssignList(row.strengths, a.strengths),
                    !.experience_gaps = AssignList(row.experience_gaps, a.experience_gaps),
                    !.recommendations = AssignList(row.recommendations, a.recommendations),
                    !.summary = a.summary]
             stored == Commit(row, assigned, now)
         IN  Did(Return(stored), [table EXCEPT ![session_id] = stored])

\* An enhancement that also overwrites the analysis score with the new one.
update_enhancement_AlsoScore(table, session_id, e, now) ==
    IF session_id \notin DOMAIN table THEN Did(Return(NULL), table)
    ELSE LET row == table[session_id]
             assigned ==
                [row EXCEPT
                    !.additional_info = e.additional_info,
                    !.new_score = e.new_score,
                    !.original_score = e.new_score,
                    !.improvement_suggestions = e.improvement_suggestions,
                    !.enhanced_cv_path = e.enhanced_cv_path]
             stored == Commit(row, assigned, now)
         IN  Did(Return(stored), [table EXCEPT ![session_id] = stored])

\* crud.py lines 57-75; e is the argument set.
update_enhancement(table, session_id, e, now) ==
    IF session_id \notin DOMAIN table THEN Did(Return(NULL), table)
    ELSE IF ~(Bindable(e.additional_info) /\ Bindable(e.new_score)
              /\ Bindable(e.enhanced_cv_path))
    THEN Did(Raise("InterfaceError", <<"Error binding parameter">>), table)
    ELSE LET row == table[session_id]
             assigned ==
                [row EXCEPT
                    !.additional_info = e.additional_info,
                    !.new_score = e.new_score,
                    !.improvement_suggestions = e.improvement_suggestions,
                    !.enhanced_cv_path = e.enhanced_cv_path]
             stored == Commit(row, assigned, now)
         IN  Did(Return(stored), [table EXCEPT ![session_id] = stored])

\* A delete that reports success whether or not it found the row.
delete_session_AlwaysTrue(table, session_id) ==
    IF session_id \in DOMAIN table
    THEN Did(Return(JBool(TRUE)), WithoutRow(table, session_id))
    ELSE Did(Return(JBool(TRUE)), table)

\* crud.py lines 181-189
delete_session(table, session_id) ==
    IF session_id \in DOMAIN table
    THEN Did(Return(JBool(TRUE)), WithoutRow(table, session_id))
    ELSE Did(Return(JBool(FALSE)), table)


\* crud.py lines 96 and 102: a text filter applies when its argument is
\* neither None nor empty.
Truthy(arg) == arg.some /\ arg.v # <<>>

\* A score bound that is dropped when it is zero.
HasBound_Truthy(bound) == bound.some /\ bound.v # 0

\* crud.py lines 98 and 100: a score bound applies when it is not None.
HasBound(bound) == bound.some

\* crud.py lines 99 and 101: original_score >= min_score, <= max_score.  A
\* comparison with NULL is not true in SQL, so a row without a score fails it.
ScoreAtLeast(row, n) == IsNum(row.original_score) /\ row.original_score.num >= n
ScoreAtMost(row, n) == IsNum(row.original_score) /\ row.original_score.num <= n

\* crud.py line 97: job_title ILIKE '%...%'
TitleLike(row, t) ==
    "str" \in DOMAIN row.job_title /\ Contains(Lower(row.job_title.str), Lower(t))

\* crud.py lines 96-103: the filters a row has to pass.
Matches(row, job_title, min_score, max_score, file_type) ==
    /\ Truthy(job_title) => TitleLike(row, job_title.v)
    /\ HasBound(min_score) => ScoreAtLeast(row, min_score.v)
    /\ HasBound(max_score) => ScoreAtMost(row, max_score.v)
    /\ Truthy(file_type) => row.cv_file_type = JStr(file_type.v)

\* crud.py line 105, order_by(created_at.desc()): the orders the database may
\* give the rows in; rows of equal created_at come in either order.
Orderings(table, ids) ==
    {q \in [1..Cardinality(ids) -> ids] :
        /\ \A i, j \in DOMAIN q : i # j => q[i] # q[j]
        /\ \A i, j \in DOMAIN q :
            i < j => table[q[i]].created_at.num >= table[q[j]].created_at.num}

\* crud.py line 105, offset(skip).limit(limit)
Window(q, skip, limit) ==
    SubSeq(q, skip + 1, IF skip + limit < Len(q) THEN skip + limit ELSE Len(q))

\* crud.py lines 82-105: the lists of rows the query may return.
get_filtered_sessions(table, limit, skip, job_title, min_score, max_score, file_type) ==
    LET ids == {id \in DOMAIN table :
                    Matches(table[id], job_title, min_score, max_score, file_type)}
    IN  {[i \in DOMAIN Window(q, skip, limit) |-> table[Window(q, skip, limit)[i]]] :
            q \in Orderings(table, ids)}


-----------------------------------------------------------------------------
(* The /api/analyze-cv request: utils.py save_temp_file, main.py *)

TmpDir == <<"/", "t", "/">>

\* The n-th name tempfile generates: never one it gave before.
TmpName(n) == "tmp" \o ToString(n)

\* A base name that keeps the directory.
BaseName_FullPath(path) == path

\* os.path.basename(path)
BaseName(path) == SubSeq(path, RFind(path, "/") + 1, Len(path))

\* A file system operation gives its outcome and the files it leaves.
DidIO(out, fs) == [out |-> out, files |-> fs]

\* utils.py lines 22-30.  A missing filename fails in splitext, before any
\* file exists; NamedTemporaryFile(delete=False) then creates the file, and
\* the read of the upload or the write of its content may fail after that.
save_temp_file(upload, n, io_ok, fs) ==
    IF ~upload.filename.some
    THEN DidIO(Raise("TypeError", <<"expected str, bytes or os.PathLike object, not NoneType">>), fs)
    ELSE LET suffix == SplitExt(upload.filename.v)
             name == TmpDir \o <<TmpName(n)>> \o suffix
         IN  IF io_ok THEN DidIO(Return(name), fs \cup {name})
             ELSE DidIO(Raise("OSError", <<"[Errno 28] No space left on device">>),
                        fs \cup {name})

PreviewLen == 500

\* A preview that cuts the text and marks nothing.
Preview_NoEllipsis(text) ==
    IF Len(text) > PreviewLen THEN SubSeq(text, 1, PreviewLen) ELSE text

\* main.py lines 101 and 105
Preview(text) ==
    IF Len(text) > PreviewLen THEN SubSeq(text, 1, PreviewLen) \o <<".", ".", ".">> ELSE text

\* A choice of title that takes any target title that is not empty.
JobTitleToUse_NoTrim(form) ==
    IF form.target_job_title # <<>> THEN form.target_job_title
    ELSE form.current_job_title

\* main.py line 61
JobTitleToUse(form) ==
    IF Strip(form.target_job_title) # <<>> THEN form.target_job_title
    ELSE form.current_job_title

\* main.py lines 115-125: the handler of each failure class and its status.
StatusOf(exc) == IF Catches("ValueError", exc.cls) THEN 400 ELSE 500

ErrorResponse(exc) ==
    [ status |-> StatusOf(exc),
      detail |-> IF StatusOf(exc) = 400 THEN exc.msg ELSE <<"Analysis failed: ">> \o exc.msg ]

\* main.py lines 117-118 and 123-124: temp_path is removed when it was
\* assigned and the file exists.
Cleanup(fs, temp_path) == IF temp_path.some THEN fs \ {temp_path.v} ELSE fs

\* main.py lines 82-113
SuccessResponse(session_id, t, title, form, text, filetype, filename) ==
    [ status |-> 200,
      success |-> TRUE,
      session_id |-> session_id,
      analysis |-> [ original_score |-> t[1],
                     job_title |-> title,
                     current_job_title |-> form.current_job_title,
                     target_job_title |-> form.target_job_title,
                     summary |-> t[3],
                     strengths |-> t[4],
                     missing_skills |-> t[2],
                     experience_gaps |-> t[5],
                     recommendations |-> t[6] ],
      extracted_data |-> [ full_text |-> text,
                           file_type |-> filetype,
                           file_name |-> filename,
                           text_length |-> Len(text),
                           text_preview |-> Preview(text) ],
      cv_info |-> [ file_type |-> filetype, text_preview |-> Preview(text) ] ]

\* main.py lines 68-79: the argument set of the handler's update_analysis.
AnalysisArgs(t, title, form) ==
    [ job_title |-> JStr(title),
      job_description |-> JStr(form.job_description),
      original_score |-> t[1],
      missing_skills |-> t[2],
      strengths |-> t[4],
      experience_gaps |-> t[5],
      recommendations |-> t[6],
      summary |-> t[3] ]

\* The request ends with an error response: the handler's cleanup, then the
\* response.  made is the file the request created, temp_path what the
\* handler knows of it.
Fail(exc, temp_path, made, fs, table) ==
    /\ files' = Cleanup(fs, temp_path)
    /\ resp' = ErrorResponse(exc)
    /\ req' = [pc |-> "done", made |-> made, raised |-> exc]
    /\ sessions' = table


-----------------------------------------------------------------------------
(* The requests and the direct calls the store is run with *)

\* How many uploads are made.
MaxUploads == 1
\* How far the clock runs.
MaxClock == 1

Name(ext) == Some(<<"c", "v">> \o ext)
PlainText == <<"J", "\n", "P">>
\* A text of n characters.
LongText(n) == Rep("x", n)
ReqUploads == {
    [filename |-> Name(ExtTxt), file |-> [fmt |-> "text", text |-> LongText(PreviewLen)]],
    [filename |-> Name(ExtTxt), file |-> [fmt |-> "text", text |-> LongText(PreviewLen + 1)]],
    [filename |-> None, file |-> [fmt |-> "text", text |-> PlainText]],
    [filename |-> Name(ExtTxt), file |-> [fmt |-> "text", text |-> PlainText]],
    [filename |-> Name(Dot(<<"T", "X", "T">>)), file |-> [fmt |-> "binary"]],
    [filename |-> Name(Dot(<<"d", "o", "c">>)), file |-> [fmt |-> "text", text |-> PlainText]],
    [filename |-> Name(ExtPdf), file |-> [fmt |-> "binary"]],
    [filename |-> Name(Dot(<<"p", "n", "g">>)), file |-> [fmt |-> "image", ocrtext |-> <<"o", "c", "r">>]],
    [filename |-> Name(ExtDocx), file |-> [fmt |-> "binary"]]
}

Forms == {
    [current_job_title |-> <<"D", "e", "v">>, target_job_title |-> t,
     job_description |-> <<"N", "e", "e", "d", " ", "P", "y">>] :
        t \in {<<" ">>, <<"L", "e", "a", "d">>}
}

FullReply(p) == JObj([k \in RequiredKeySet |-> FieldValue(p, k)])

ReqEnvs == {
    [credential |-> FALSE, service |-> Return(None)],
    [credential |-> TRUE, service |-> Raise("APIConnectionError", <<"Connection error.">>)],
    [credential |-> TRUE, service |-> Return(Some(<<Prose>>))],
    [credential |-> TRUE,
     service |-> Return(Some(FenceJson \o <<"\n", Dumps(FullReply("good")), "\n">> \o Fence))],
    [credential |-> TRUE, service |-> Return(Some(<<Dumps(FullReply("odd"))>>))],
    [credential |-> TRUE, service |-> Return(Some(<<Dumps(UnbindableReply)>>))]
}

\* The argument sets of the direct update_analysis calls.
DirectAnalysisArgs == {
    [ job_title |-> JStr(<<"Q", "A">>), job_description |-> JStr(<<"T", "e", "s", "t">>),
      original_score |-> JNum(65),
      missing_skills |-> JList(<<JStr(<<"Go">>)>>),
      strengths |-> JList(<<JStr(<<"SQL">>), JStr(<<"Git">>)>>),
      experience_gaps |-> JList(<<>>),
      recommendations |-> JList(<<JStr(<<"Add metrics">>)>>),
      summary |-> JStr(<<"Fair match">>) ],
    [ job_title |-> JStr(<<"Q", "A">>), job_description |-> JStr(<<"T", "e", "s", "t">>),
      original_score |-> JNum(90),
      missing_skills |-> JList(<<>>),
      strengths |-> JList(<<JStr(<<"SQL">>)>>),
      experience_gaps |-> JList(<<JStr(<<"Lead">>)>>),
      recommendations |-> JList(<<>>),
      summary |-> JStr(<<"Strong match">>) ]
}

\* The argument sets of the direct update_enhancement calls.
DirectEnhancementArgs == {
    [ additional_info |-> JStr(<<"Learned Go">>),
      new_score |-> JNum(70),
      improvement_suggestions |-> SuggestionDefaults(<<"Connection error.">>),
      enhanced_cv_path |-> JStr(<<"/", "t", "/", "enhanced.docx">>) ]
}

UnknownId == <<"nobody">>

InitStore ==
    /\ tesseract \in BOOLEAN
    /\ TESSERACT_AVAILABLE = tesseract
    /\ x_path = <<>>
    /\ x_file = [fmt |-> "binary"]
    /\ x_out = NoCall
    /\ d_out = NoCall
    /\ AnalyzerIdle
    /\ StoreIdle

\* main.py lines 47-58: save the upload, extract its text, create the session.
ReqReceive ==
    /\ req.pc \in {"idle", "done"}
    /\ next_tmp < MaxUploads
    /\ \E upload \in ReqUploads, form \in Forms, io_ok \in BOOLEAN :
        LET saved == save_temp_file(upload, next_tmp + 1, io_ok, files)
            made == IF saved.files = files THEN None
                    ELSE Some(CHOOSE f \in saved.files : f \notin files)
            temp_path == saved.out.value
            extracted == extract_text(temp_path, upload.file, tesseract)
            session_id == BaseName(temp_path)
            created == create_session(sessions, session_id,
                                      JStr(extracted.value.text),
                                      JStr(<<extracted.value.tag>>),
                                      JStr(temp_path), clock)
        IN  /\ next_tmp' = IF made.some THEN next_tmp + 1 ELSE next_tmp
            /\ IF saved.out.kind = "raise"
               THEN Fail(saved.out, None, made, saved.files, sessions)
               ELSE IF extracted.kind = "raise"
               THEN Fail(extracted, Some(temp_path), made, saved.files, sessions)
               ELSE IF created.out.kind = "raise"
               THEN Fail(created.out, Some(temp_path), made, saved.files, created.sessions)
               ELSE /\ files' = saved.files
                    /\ sessions' = created.sessions
                    /\ resp' = NoCall
                    /\ req' = [ pc |-> "created", temp_path |-> temp_path,
                                session_id |-> session_id,
                                text |-> extracted.value.text,
                                filetype |-> extracted.value.tag,
                                file_name |-> upload.filename.v, form |-> form ]
    /\ last_call' = NoCall
    /\ UNCHANGED <<clock, txns, xvars, avars>>

\* main.py lines 61-113: analyze, update the session, respond.
ReqAnalyze ==
    /\ req.pc = "created"
    /\ \E env \in ReqEnvs :
        LET title == JobTitleToUse(req.form)
            analysis_result == analyze_cv(env)
            t == analysis_result.value
            args == AnalysisArgs(t, title, req.form)
            updated == update_analysis(sessions, req.session_id, args, clock)
        IN  /\ a_env' = [ credential |-> env.credential, service |-> env.service,
                           cv_text |-> req.text, job_title |-> title,
                           job_desc |-> req.form.job_description ]
            /\ a_out' = analysis_result
            /\ a_calls' = AnalyzeServiceCalls(env)
            /\ IF analysis_result.kind = "raise"
               THEN /\ Fail(analysis_result, Some(req.temp_path), Some(req.temp_path),
                            files, sessions)
                    /\ last_call' = NoCall
               ELSE IF updated.out.kind = "raise"
               THEN /\ Fail(updated.out, Some(req.temp_path), Some(req.temp_path),
                            files, updated.sessions)
                    /\ last_call' = NoCall
               ELSE /\ sessions' = updated.sessions
                    /\ resp' = SuccessResponse(req.session_id, t, title, req.form,
                                               req.text, req.filetype, req.file_name)
                    /\ req' = [pc |-> "done", made |-> Some(req.temp_path),
                               raised |-> NoCall]
                    /\ last_call' = [op |-> "update_analysis", id |-> req.session_id,
                                     args |-> args, out |-> updated.out]
                    /\ UNCHANGED files
    /\ UNCHANGED <<next_tmp, clock, txns, xvars, s_in, s_out>>

\* The id of the session the last call deleted.
JustDeleted ==
    IF "op" \in DOMAIN last_call /\ last_call.op = "delete_session"
    THEN {last_call.id} ELSE {}

\* The ids the direct calls are made with: of a session in the store, of one
\* just deleted, of one never created.
Ids == (DOMAIN sessions) \cup JustDeleted \cup {UnknownId}

\* A direct call of CVSessionCRUD.update_analysis.
CallUpdateAnalysis ==
    /\ \E id \in Ids, a \in DirectAnalysisArgs :
        LET done == update_analysis(sessions, id, a, clock)
        IN  /\ sessions' = done.sessions
            /\ last_call' = [op |-> "update_analysis", id |-> id, args |-> a, out |-> done.out]
    /\ UNCHANGED <<files, next_tmp, clock, req, resp, txns, xvars, avars>>

\* A direct call of CVSessionCRUD.update_enhancement.
CallUpdateEnhancement ==
    /\ \E id \in Ids, e \in DirectEnhancementArgs :
        LET done == update_enhancement(sessions, id, e, clock)
        IN  /\ sessions' = done.sessions
            /\ last_call' = [op |-> "update_enhancement", id |-> id, args |-> e, out |-> done.out]
    /\ UNCHANGED <<files, next_tmp, clock, req, resp, txns, xvars, avars>>

\* A direct call of CVSessionCRUD.delete_session.
CallDeleteSession ==
    /\ \E id \in Ids :
        LET done == delete_session(sessions, id)
        IN  /\ sessions' = done.sessions
            /\ last_call' = [op |-> "delete_session", id |-> id, args |-> NoCall, out |-> done.out]
    /\ UNCHANGED <<files, next_tmp, clock, req, resp, txns, xvars, avars>>

\* Time passes.
Tick ==
    /\ clock < MaxClock
    /\ clock' = clock + 1
    /\ UNCHANGED <<sessions, files, next_tmp, req, resp, last_call, txns, xvars, avars>>

Next ==
    \/ ReqReceive
    \/ ReqAnalyze
    \/ CallUpdateAnalysis
    \/ CallUpdateEnhancement
    \/ CallDeleteSession
    \/ Tick

Init == InitStore

Spec == Init /\ [][Next]_vars


-----------------------------------------------------------------------------
(* Properties of the request and of the session store *)

\* The request has ended with an error response.
EndedInError == req.pc = "done" /\ req.raised.kind = "raise"

\* C8: a request that fails with a ValueError (a caller-input failure) ends
\* in a 400 response, one that fails otherwise in a 500 response, and in both
\* cases the temporary file the request created no longer exists when the
\* error response is produced.
C8_ErrorResponseCleansUp ==
    EndedInError =>
        /\ resp.status = (IF Catches("ValueError", req.raised.cls) THEN 400 ELSE 500)
        /\ req.made.some => req.made.v \notin files

IsNull(v) == "null" \in DOMAIN v
ScoreInRange(v) == IsNull(v) \/ (IsNum(v) /\ v.num \in 0..100)

\* C9: in every reachable state of the store, each session's original_score
\* and new_score is absent or an integer within 0..100.
C9_ScoresInRange ==
    \A id \in DOMAIN sessions :
        /\ ScoreInRange(sessions[id].original_score)
        /\ ScoreInRange(sessions[id].new_score)

\* The last store call was an update_analysis that found its session.
JustUpdatedAnalysis ==
    /\ "op" \in DOMAIN last_call
    /\ last_call.op = "update_analysis"
    /\ last_call.out.kind = "return"
    /\ last_call.id \in DOMAIN sessions

\* C10: update_analysis is idempotent.  Once it has run on an existing
\* session, running it again with the same arguments, now or at any later
\* time, returns the stored row and leaves the store as the first call left
\* it: list fields are replaced, not appended to.
C10_UpdateAnalysisIdempotent ==
    JustUpdatedAnalysis =>
        \A t \in clock..(MaxClock + 1) :
            update_analysis(sessions, last_call.id, last_call.args, t)
                = Did(Return(sessions[last_call.id]), sessions)

\* C10 witness: an update_analysis with non-empty lists took effect on a
\* session, and time has passed since.
C10_Witness ==
    /\ JustUpdatedAnalysis
    /\ IsList(last_call.args.strengths)
    /\ last_call.args.strengths.list # <<>>
    /\ sessions[last_call.id].strengths = last_call.args.strengths
    /\ sessions[last_call.id].updated_at.num < clock


-----------------------------------------------------------------------------
(* Further properties of the extractor, the analyzer and the request *)

DegradedEnv(env) ==
    \/ ~env.credential
    \/ env.service.kind = "raise"
    \/ ~env.service.value.some
    \/ JsonLoads(StripFence(Strip(env.service.value.v))).kind = "raise"

PlaceholderSummary(v) ==
    /\ "str" \in DOMAIN v
    /\ \/ v = Text("Could not parse AI analysis response")
       \/ StartsWith(v.str, <<"Analysis failed: ">>)

\* C15: when the analysis of a request degrades, the request still ends in a
\* success-shaped response, and the session created before the analysis
\* stays in the store with what it was created with, now holding the
\* degraded values (score 50 and the placeholder texts); the temporary file
\* stays too: nothing is rolled back.
C15_DegradedAnalysisKeepsSession ==
    [][(ReqAnalyze /\ DegradedEnv(a_env') /\ req.session_id \in DOMAIN sessions) =>
        LET id == req.session_id
        IN  /\ resp'.status = 200
            /\ resp'.success
            /\ resp'.session_id = id
            /\ resp'.analysis.original_score = JNum(50)
            /\ id \in DOMAIN sessions'
            /\ sessions'[id].original_score = JNum(50)
            /\ PlaceholderSummary(sessions'[id].summary)
            /\ sessions'[id].missing_skills \in
                    {StrList("Analysis parsing failed"),
                     StrList("Unable to analyze - API error")}
            /\ sessions'[id].cv_text = sessions[id].cv_text
            /\ sessions'[id].cv_file_path = sessions[id].cv_file_path
            /\ req.temp_path \in files']_vars

\* C15 witness: a request whose analysis had no credential has ended with a
\* 200 response and its session holds score 50.
C15_Witness ==
    /\ req.pc = "done"
    /\ req.raised.kind = "none"
    /\ a_env # NoCall
    /\ ~a_env.credential
    /\ resp.status = 200
    /\ resp.session_id \in DOMAIN sessions
    /\ sessions[resp.session_id].original_score = JNum(50)

Succeeded == "status" \in DOMAIN resp /\ resp.status = 200

\* C19, as claimed: the preview of a successful response has at most 500
\* characters: the full text when the text is under 500 characters, and
\* otherwise the text's first 500 characters.
C19_PreviewIsFirst500 ==
    Succeeded =>
        LET text == resp.extracted_data.full_text
            preview == resp.extracted_data.text_preview
        IN  /\ resp.cv_info.text_preview = preview
            /\ Len(preview) <= 500
            /\ Len(text) < 500 => preview = text
            /\ Len(text) >= 500 => preview = SubSeq(text, 1, 500)

\* C19, amended: the preview (extracted_data.text_preview and
\* cv_info.text_preview alike) is the full text whenever the text has at most
\* 500 characters, and otherwise the text's first 500 characters followed by
\* three dots, 503 characters in all.
C19_PreviewCutsWithEllipsis ==
    Succeeded =>
        LET text == resp.extracted_data.full_text
            preview == resp.extracted_data.text_preview
        IN  /\ resp.cv_info.text_preview = preview
            /\ Len(text) <= 500 => preview = text
            /\ Len(text) > 500 =>
                /\ Len(preview) = 503
                /\ SubSeq(preview, 1, 500) = SubSeq(text, 1, 500)
                /\ SubSeq(preview, 501, 503) = <<".", ".", ".">>

\* C19 witness: a text of 501 characters was uploaded and the request
\* succeeded.
C19_Witness ==
    /\ Succeeded
    /\ Len(resp.extracted_data.full_text) = 501
    /\ resp.extracted_data.text_length = 501

\* C20: OCR availability is what the engine answers at the time of the
\* extract_text call, not the flag set at import: an image call returns
\* exactly when the engine is there at the call (and the file is an image),
\* fails with a ValueError carrying the engine's answer when it is not, and
\* the message for an unsupported extension lists the image formats exactly
\* when the engine is there at the call.
C20_OcrProbedAtCallTime ==
    x_out.kind # "none" =>
        /\ LoweredExt \in ImageExts =>
            /\ x_out.kind = "return" <=> (tesseract /\ x_file.fmt = "image")
            /\ x_out.kind = "raise" => x_out.cls = "ValueError"
            /\ ~tesseract => Contains(x_out.msg, TesseractMissing)
        /\ TagOfExt(LoweredExt) = "unsupported" =>
            (Contains(x_out.msg, <<" and images (JPG, PNG)">>) <=> tesseract)

\* C20 witness: the engine was missing at import and is there now, and an
\* image call made now returned the OCR text.
C20_Witness ==
    /\ ~TESSERACT_AVAILABLE
    /\ tesseract
    /\ x_out.kind = "return"
    /\ x_out.value.tag = "image"

-----------------------------------------------------------------------------
(* The query, run on every store of a few sessions *)

\* How many sessions a queried store holds.
MaxSessions == 3

QueryIds == {<<"s" \o ToString(i)>> : i \in 1..MaxSessions}
QueryScores == {NULL, JNum(0), JNum(40), JNum(65), JNum(90)}
QueryTimes == {0, 1}

\* The row create_session makes at the time created and, when the session
\* has a score, update_analysis then fills.
QueryRow(id, score, created) ==
    LET fresh == create_session(<<>>, id, JStr(PlainText), JStr(<<"txt">>),
                                JStr(TmpDir \o id), created).sessions
        a == CHOOSE d \in DirectAnalysisArgs : d.original_score = JNum(65)
    IN  IF score = NULL THEN fresh[id]
        ELSE update_analysis(fresh, id, [a EXCEPT !.original_score = score],
                             created).sessions[id]

QueryTables ==
    UNION {{[id \in S |-> QueryRow(id, f[id][1], f[id][2])] :
                f \in [S -> QueryScores \X QueryTimes]} : S \in SUBSET QueryIds}

MinScores == {None, Some(0), Some(50), Some(65)}
MaxScores == {None, Some(0), Some(65), Some(80)}
Skips == {0, 1}
Limits == {1, 100}

InitQuery ==
    /\ sessions \in QueryTables
    /\ files = {}
    /\ next_tmp = 0
    /\ clock = 1
    /\ req = [pc |-> "idle"]
    /\ resp = NoCall
    /\ last_call = NoCall
    /\ txns = <<>>
    /\ ExtractorIdle
    /\ AnalyzerIdle

\* A call of CVSessionCRUD.get_filtered_sessions with score bounds.
CallGetFilteredSessions ==
    /\ last_call = NoCall
    /\ \E min_score \in MinScores, max_score \in MaxScores,
          skip \in Skips, limit \in Limits :
        \E out \in get_filtered_sessions(sessions, limit, skip, None,
                                         min_score, max_score, None) :
            last_call' = [op |-> "get_filtered_sessions", id |-> NoCall,
                          args |-> [limit |-> limit, skip |-> skip,
                                    min_score |-> min_score, max_score |-> max_score],
                          out |-> Return(out)]
    /\ UNCHANGED <<sessions, files, next_tmp, clock, req, resp, txns, xvars, avars>>

NextQuery == CallGetFilteredSessions

SpecQuery == InitQuery /\ [][NextQuery]_vars

Queried == "op" \in DOMAIN last_call /\ last_call.op = "get_filtered_sessions"

\* The sessions a query with the bounds a is claimed to select: when a bound
\* is given, those whose score is present and within it.
WithinBounds(a) ==
    {id \in DOMAIN sessions :
        LET s == sessions[id].original_score
        IN  /\ a.min_score.some => (~IsNull(s) /\ a.min_score.v <= s.num)
            /\ a.max_score.some => (~IsNull(s) /\ s.num <= a.max_score.v)}

\* C11: get_filtered_sessions with min_score and/or max_score returns
\* sessions of the store, each once, newest first, every one of them with a
\* score present and within the inclusive bounds given (a bound of 0 applied
\* like any other), as many as the skip/limit window leaves of those
\* sessions, and all of them when the window is wide enough.
C11_FilterByScoreBounds ==
    Queried =>
        LET a == last_call.args
            out == last_call.out.value
            expected == WithinBounds(a)
            left == IF Cardinality(expected) > a.skip
                    THEN Cardinality(expected) - a.skip ELSE 0
        IN  /\ \A i \in DOMAIN out :
                /\ out[i].id \in expected
                /\ out[i] = sessions[out[i].id]
            /\ \A i, j \in DOMAIN out : i # j => out[i].id # out[j].id
            /\ \A i, j \in DOMAIN out :
                i < j => out[i].created_at.num >= out[j].created_at.num
            /\ Len(out) = (IF left < a.limit THEN left ELSE a.limit)
            /\ (a.skip = 0 /\ Cardinality(expected) <= a.limit)
                => {out[i].id : i \in DOMAIN out} = expected

\* C11 witness: of sessions scored 40, 65 and 90, the query for 50..80
\* returned exactly the one scored 65; and a query with a lower bound of 0
\* left out a session without a score.
C11_Witness ==
    /\ Queried
    /\ {sessions[id].original_score : id \in DOMAIN sessions}
            = {JNum(40), JNum(65), JNum(90)}
    /\ last_call.args.min_score = Some(50)
    /\ last_call.args.max_score = Some(80)
    /\ Len(last_call.out.value) = 1
    /\ last_call.out.value[1].original_score = JNum(65)


-----------------------------------------------------------------------------
(* The store operations, called directly on a store of several sessions *)

StoreIds == {<<"s1">>, <<"s2">>}

InitStoreOps ==
    /\ ExtractorIdle
    /\ AnalyzerIdle
    /\ StoreIdle

\* A direct call of CVSessionCRUD.create_session.
CallCreateSession ==
    /\ \E id \in StoreIds :
        LET done == create_session(sessions, id, JStr(PlainText), JStr(<<"txt">>),
                                   JStr(TmpDir \o id), clock)
        IN  /\ sessions' = done.sessions
            /\ last_call' = [op |-> "create_session", id |-> id, args |-> NoCall,
                             out |-> done.out]
    /\ UNCHANGED <<files, next_tmp, clock, req, resp, txns, xvars, avars>>

NextStoreOps ==
    \/ CallCreateSession
    \/ CallUpdateAnalysis
    \/ CallUpdateEnhancement
    \/ CallDeleteSession
    \/ Tick

SpecStore == InitStoreOps /\ [][NextStoreOps]_vars

Called(op) == "op" \in DOMAIN last_call /\ last_call.op = op

\* C12: update_analysis and update_enhancement called with an id that is not
\* in the store (never created, or already deleted) return null and leave
\* the whole store as it was.
C12_UnknownIdReturnsNull ==
    [][((CallUpdateAnalysis \/ CallUpdateEnhancement)
            /\ last_call'.id \notin DOMAIN sessions)
        => (last_call'.out = Return(NULL) /\ sessions' = sessions)]_vars

\* C12 witness: update_enhancement was called with the id of a deleted
\* session while another session was in the store, and returned null.
C12_Witness ==
    /\ Called("update_enhancement")
    /\ last_call.id \in StoreIds
    /\ last_call.id \notin DOMAIN sessions
    /\ last_call.out = Return(NULL)
    /\ sessions # <<>>

\* C13: delete_session(id) returns true exactly when a session with that id
\* was in the store; afterwards get_session(id) gives null, the session
\* count has dropped by one if it returned true and is unchanged if it
\* returned false, and every other session is as it was.
C13_DeleteReportsExistence ==
    [][CallDeleteSession =>
        LET id == last_call'.id
            out == last_call'.out
        IN  /\ out.kind = "return"
            /\ out.value \in {JBool(TRUE), JBool(FALSE)}
            /\ out.value = JBool(TRUE) <=> id \in DOMAIN sessions
            /\ get_session(sessions', id) = NULL
            /\ Cardinality(DOMAIN sessions')
                = Cardinality(DOMAIN sessions) - (IF out.value = JBool(TRUE) THEN 1 ELSE 0)
            /\ \A k \in (DOMAIN sessions) \ {id} :
                k \in DOMAIN sessions' /\ sessions'[k] = sessions[k]]_vars

\* C13 witness: a delete returned true and left the other session in the
\* store.
C13_Witness ==
    /\ Called("delete_session")
    /\ last_call.out = Return(JBool(TRUE))
    /\ last_call.id \notin DOMAIN sessions
    /\ \E k \in DOMAIN sessions : sessions[k].original_score = JNum(65)

EnhancementFilled(row) ==
    \/ ~IsNull(row.additional_info)
    \/ ~IsNull(row.new_score)
    \/ ~IsNull(row.improvement_suggestions)
    \/ ~IsNull(row.enhanced_cv_path)

\* C17: in every reachable state of the store, a session with enhancement
\* results (additional_info, new_score, improvement_suggestions or
\* enhanced_cv_path) also has analysis results (original_score present).
C17_EnhancedImpliesAnalyzed ==
    \A id \in DOMAIN sessions :
        EnhancementFilled(sessions[id]) => ~IsNull(sessions[id].original_score)

IdentityColumns == {"id", "cv_text", "cv_file_type", "cv_file_path", "created_at"}
AnalysisColumns ==
    {"job_title", "job_description", "original_score", "missing_skills",
     "strengths", "experience_gaps", "recommendations", "summary"}
EnhancementColumns ==
    {"additional_info", "new_score", "improvement_suggestions", "enhanced_cv_path"}

\* The step keeps every session in the store, every other session as it was,
\* and the columns kept of the session id.
Keeps(id, kept) ==
    /\ DOMAIN sessions' = DOMAIN sessions
    /\ \A k \in DOMAIN sessions :
        IF k = id THEN \A c \in kept : sessions'[k][c] = sessions[k][c]
        ELSE sessions'[k] = sessions[k]

\* C18: update_analysis leaves id, cv_text, cv_file_type, cv_file_path and
\* the four enhancement fields of its session unchanged, update_enhancement
\* leaves id, cv_text, cv_file_type, cv_file_path and the eight analysis
\* fields unchanged, and neither changes any other session.
C18_UpdatesAreIndependent ==
    [][/\ CallUpdateAnalysis
            => Keeps(last_call'.id, IdentityColumns \cup EnhancementColumns)
       /\ CallUpdateEnhancement
            => Keeps(last_call'.id, IdentityColumns \cup AnalysisColumns)]_vars

\* C18 witness: an analyzed session was enhanced, its analysis is still
\* there, and another session is in the store.
C18_Witness ==
    /\ Called("update_enhancement")
    /\ last_call.id \in DOMAIN sessions
    /\ sessions[last_call.id].new_score = JNum(70)
    /\ sessions[last_call.id].original_score = JNum(65)
    /\ sessions[last_call.id].strengths.list # <<>>
    /\ \E k \in DOMAIN sessions : k # last_call.id


-----------------------------------------------------------------------------
(* update_analysis calls that run at the same time, each in a store session
   of its own (database.py get_db) *)

TxnNames == {"A", "B"}
RaceId == <<"s1">>

StoredArgs == CHOOSE d \in DirectAnalysisArgs : d.original_score = JNum(65)

\* The argument sets of the racing calls: the two of the direct calls, and
\* one that differs from the first in its summary only.
TxnArgs ==
    DirectAnalysisArgs \cup {[StoredArgs EXCEPT !.summary = JStr(<<"Good match">>)]}

\* The stores the race starts on: one session, fresh or analyzed.
RaceTables ==
    LET fresh == create_session(<<>>, RaceId, JStr(PlainText), JStr(<<"txt">>),
                                JStr(TmpDir \o RaceId), 0).sessions
    IN  {fresh, update_analysis(fresh, RaceId, StoredArgs, 0).sessions}

InitRace ==
    /\ sessions \in RaceTables
    /\ files = {}
    /\ next_tmp = 0
    /\ clock = 0
    /\ req = [pc |-> "idle"]
    /\ resp = NoCall
    /\ last_call = NoCall
    /\ txns = <<>>
    /\ ExtractorIdle
    /\ AnalyzerIdle

\* crud.py lines 45-52: the attributes of the loaded row after the
\* assignments.
AssignAnalysis(row, a) ==
    [row EXCEPT
        !.job_title = a.job_title,
        !.job_description = a.job_description,
        !.original_score = a.original_score,
        !.missing_skills = AssignList(row.missing_skills, a.missing_skills),
        !.strengths = AssignList(row.strengths, a.strengths),
        !.experience_gaps = AssignList(row.experience_gaps, a.experience_gaps),
        !.recommendations = AssignList(row.recommendations, a.recommendations),
        !.summary = a.summary]

\* crud.py line 53, db.commit(): the flush writes the columns whose attribute
\* differs from the value this store session loaded, together with
\* updated_at (database.py line 39), and writes nothing when none differs.
Flush(current, loaded, assigned, now) ==
    LET changed == {c \in DOMAIN loaded : assigned[c] # loaded[c]}
    IN  IF changed = {} THEN current
        ELSE [c \in DOMAIN current |->
                IF c \in changed THEN assigned[c]
                ELSE IF c = "updated_at" THEN JNum(now)
                ELSE current[c]]

\* How many calls have committed.
Committed == Cardinality({t \in DOMAIN txns : txns[t].pc = "done"})

\* crud.py line 43: a call starts in its own store session and loads the row.
TxnQuery(t) ==
    /\ t \notin DOMAIN txns
    /\ \E a \in TxnArgs :
        LET loaded == get_session(sessions, RaceId)
            begun == IF loaded = NULL
                     THEN [pc |-> "done", id |-> RaceId, args |-> a, loaded |-> NULL,
                           out |-> Return(NULL), rank |-> Committed + 1]
                     ELSE [pc |-> "loaded", id |-> RaceId, args |-> a,
                           loaded |-> loaded, out |-> NoCall, rank |-> 0]
        IN  txns' = [k \in (DOMAIN txns) \cup {t} |-> IF k = t THEN begun ELSE txns[k]]
    /\ UNCHANGED <<sessions, files, next_tmp, clock, req, resp, last_call, xvars, avars>>

\* crud.py lines 45-55: the assignments, the commit and the refresh.
TxnCommit(t) ==
    /\ t \in DOMAIN txns
    /\ txns[t].pc = "loaded"
    /\ LET me == txns[t]
           assigned == AssignAnalysis(me.loaded, me.args)
           stored == Flush(sessions[me.id], me.loaded, assigned, clock)
       IN  /\ sessions' = [sessions EXCEPT ![me.id] = stored]
           /\ txns' = [txns EXCEPT ![t] = [me EXCEPT !.pc = "done",
                                                      !.out = Return(stored),
                                                      !.rank = Committed + 1]]
    /\ UNCHANGED <<files, next_tmp, clock, req, resp, last_call, xvars, avars>>

NextRace ==
    \/ \E t \in TxnNames : TxnQuery(t)
    \/ \E t \in TxnNames : TxnCommit(t)
    \/ Tick

SpecRace == InitRace /\ [][NextRace]_vars

BothCommitted ==
    /\ DOMAIN txns = TxnNames
    /\ \A t \in TxnNames : txns[t].pc = "done"

\* C16: when two update_analysis calls for the same existing session have
\* run concurrently, each in its own store session, both have completed and
\* the stored analysis fields are exactly the argument set of the call that
\* committed last, never a mixture of the two.
C16_LastWriterWins ==
    BothCommitted =>
        /\ \A t \in TxnNames : txns[t].out.kind = "return"
        /\ \A t \in TxnNames :
            txns[t].rank = 2 =>
                \A c \in AnalysisColumns : sessions[RaceId][c] = txns[t].args[c]

-----------------------------------------------------------------------------
(* Loud and silent failures of the extractor *)

\* The converter gives a text the first stage accepts.
ConverterAccepted(file) ==
    /\ file.fmt = "docx"
    /\ file.mammoth.kind = "return"
    /\ Len(Strip(file.mammoth.value)) > 10

\* The document has some text in a paragraph, a table cell or a run.
HasText(paras) ==
    \E i \in 1..Len(paras) :
        \/ NonBlank(paras[i].text)
        \/ \E j \in 1..Len(paras[i].runs) : NonBlank(paras[i].runs[j])

DocHasText(doc) ==
    \/ HasText(doc.paragraphs)
    \/ \E t \in 1..Len(doc.tables) : \E r \in 1..Len(doc.tables[t]) :
        \E c \in 1..Len(doc.tables[t][r]) : HasText(doc.tables[t][r][c])

\* Neither library can open the file.
DocxUnreadable(file) ==
    \/ file.fmt # "docx"
    \/ /\ ~ConverterAccepted(file)
       /\ file.doc.kind = "raise"

\* The file opens and holds no text at all.
DocxWithoutText(file) ==
    /\ file.fmt = "docx"
    /\ ~ConverterAccepted(file)
    /\ file.doc.kind = "return"
    /\ ~DocHasText(file.doc.value)

\* C21: an image whose text cannot be read (no OCR engine, or a file that is
\* no image) makes extract_text raise ValueError and never return a text; a
\* .docx file that cannot be opened or holds no text makes extract_text
\* return a text that starts with the warning sign, tagged "docx".
C21_ImagesRaiseDocumentsReturn ==
    x_out.kind # "none" =>
        /\ (LoweredExt \in ImageExts /\ (~tesseract \/ x_file.fmt # "image")) =>
            /\ x_out.kind = "raise"
            /\ x_out.cls = "ValueError"
        /\ (LoweredExt = ExtDocx /\ (DocxUnreadable(x_file) \/ DocxWithoutText(x_file))) =>
            /\ x_out.kind = "return"
            /\ x_out.value.tag = "docx"
            /\ Len(x_out.value.text) > 0
            /\ Head(x_out.value.text) = Warn
            /\ DocxWithoutText(x_file) => x_out.value.text = NoTextSentinel

\* An unreadable image was refused while the OCR engine was there.
C21_Witness ==
    /\ LoweredExt \in ImageExts
    /\ tesseract
    /\ x_file.fmt # "image"
    /\ x_out.kind = "raise"
    /\ x_out.cls = "ValueError"

-----------------------------------------------------------------------------
(* The request on its own: no other caller touches the store *)

NextRequest ==
    \/ ReqReceive
    \/ ReqAnalyze
    \/ Tick

SpecRequest == Init /\ [][NextRequest]_vars

\* The row holds what create_session was given and nothing else.
CreatedOnly(row) ==
    \A c \in AnalysisColumns \cup EnhancementColumns : row[c] = NULL

\* The step in which the handler creates the session.
CreateStep == req.pc # "created" /\ req'.pc = "created"

\* The step in which the handler calls the analyzer and finishes.
AnalyzeStep == req.pc = "created" /\ req'.pc = "done"

\* C22: the handler creates the session from the extracted text before it
\* calls the analyzer, so at that call the row has no analysis and no
\* enhancement field; a row already stored changes in the handler's one
\* update_analysis and nowhere else; and a success response carries the id
\* and the score that update wrote.
C22_StepsInOrder ==
    [][ /\ CreateStep =>
            /\ req'.session_id \in DOMAIN sessions'
            /\ req'.session_id \notin DOMAIN sessions
            /\ sessions'[req'.session_id].cv_text = JStr(req'.text)
        /\ AnalyzeStep =>
            /\ req.session_id \in DOMAIN sessions
            /\ CreatedOnly(sessions[req.session_id])
            /\ a_out'.kind # "none"
            /\ Succeeded' =>
                /\ last_call'.op = "update_analysis"
                /\ last_call'.id = req.session_id
                /\ resp'.session_id = req.session_id
                /\ Keeps(req.session_id, IdentityColumns \cup EnhancementColumns)
                /\ \A c \in AnalysisColumns :
                    sessions'[req.session_id][c] = last_call'.args[c]
                /\ sessions'[req.session_id].original_score = resp'.analysis.original_score
                /\ resp'.analysis.original_score = a_out'.value[1]
        /\ \A k \in (DOMAIN sessions) \cap (DOMAIN sessions') :
            sessions'[k] # sessions[k] => (AnalyzeStep /\ k = req.session_id)
      ]_vars

\* A request succeeded on a reply of the service and its score is stored.
C22_Witness ==
    /\ req.pc = "done"
    /\ Succeeded
    /\ a_env.credential
    /\ resp.session_id \in DOMAIN sessions
    /\ resp.analysis.original_score = JNum(85)
    /\ sessions[resp.session_id].original_score = JNum(85)

-----------------------------------------------------------------------------
(* The stages of the .docx extractor *)

\* What the first and the second collection of the structural reader give.
FirstCollection(doc) == ParagraphParts(doc.paragraphs) \o TableParts(doc.tables)
RunCollection(doc) == RunParts(doc.paragraphs) \o TableRunParts(doc.tables)

\* C23: for a file both libraries can open, extract_text_from_docx returns
\* the converter's trimmed text exactly when that text has more than 10
\* characters; otherwise the paragraph and table-cell texts joined by line
\* breaks; the run texts only when that collection is empty; and the
\* "no extractable text" sentinel exactly when the converter's text was not
\* accepted and the document holds no text in any paragraph, cell or run.
C23_OrderedFallback ==
    (d_out.kind # "none" /\ x_file.fmt = "docx" /\ x_file.doc.kind = "return") =>
        LET m == x_file.mammoth
            doc == x_file.doc.value
            first == FirstCollection(doc)
            runs == RunCollection(doc)
        IN  /\ ConverterAccepted(x_file) => d_out = Return(Strip(m.value))
            /\ (m.kind = "return" /\ d_out = Return(Strip(m.value))) =>
                    Len(Strip(m.value)) > 10
            /\ ~ConverterAccepted(x_file) =>
                /\ first # <<>> => d_out = Return(Join(<<"\n">>, first))
                /\ (first = <<>> /\ runs # <<>>) => d_out = Return(Join(<<"\n">>, runs))
                /\ (first = <<>> /\ runs = <<>>) => d_out = Return(NoTextSentinel)
            /\ d_out = Return(NoTextSentinel) <=>
                    (~ConverterAccepted(x_file) /\ ~DocHasText(doc))

\* The converter gave exactly 10 characters, the paragraphs and cells gave
\* nothing, and the text returned is the runs'.
C23_Witness ==
    /\ x_file.fmt = "docx"
    /\ x_file.mammoth.kind = "return"
    /\ Len(Strip(x_file.mammoth.value)) = 10
    /\ x_file.doc.kind = "return"
    /\ FirstCollection(x_file.doc.value) = <<>>
    /\ RunCollection(x_file.doc.value) # <<>>
    /\ d_out = Return(Join(<<"\n">>, RunCollection(x_file.doc.value)))

-----------------------------------------------------------------------------
(* Code fences around the reply *)

JsonObjects == {J \in JsonDocs : IsObj(J)}

\* The object on a line of its own between an opening and a closing fence.
Fenced(opening, J) == opening \o <<"\n", Dumps(J), "\n">> \o Fence

\* The reply that is the object and nothing else.
BareEnv(J) == [credential |-> TRUE, service |-> Return(Some(<<Dumps(J)>>))]

\* The reply is the fenced form of an object and analyze_cv gave what it
\* gives on the bare object.
SameAsBare(openings) ==
    (a_out.kind # "none" /\ GotContent) =>
        \A J \in JsonObjects, opening \in openings :
            a_env.service.value.v = Fenced(opening, J) => a_out = analyze_cv(BareEnv(J))

\* C24: for every JSON object, a reply that wraps the object in a code fence,
\* opened with or without the json tag, gives the result tuple the bare
\* object gives.
C24_FencedEqualsBare == SameAsBare({Fence, FenceJson})

-----------------------------------------------------------------------------
(* The temporary file after the request *)

\* The response is one of the handler's two error responses.
Failed == "status" \in DOMAIN resp /\ resp.status \in {400, 500}

\* C25: after a success response the file the request saved still exists,
\* the session the response names is stored with that file's path as its
\* cv_file_path, and the session id is the file's name without directory;
\* a step removes a temporary file only when it ends in an error response.
C25_TempFileKeptOnSuccess ==
    /\ [](Succeeded =>
            /\ req.pc = "done"
            /\ req.made.some
            /\ req.made.v \in files
            /\ resp.session_id \in DOMAIN sessions
            /\ sessions[resp.session_id].cv_file_path = JStr(req.made.v)
            /\ TmpDir \o resp.session_id = req.made.v
            /\ \A i \in 1..Len(resp.session_id) : resp.session_id[i] # "/")
    /\ [][(files \ files' # {}) =>
            /\ Failed'
            /\ req'.pc = "done"
            /\ req'.made.some
            /\ files \ files' = {req'.made.v}]_vars

\* A request succeeded and its file is there.
C25_Witness ==
    /\ Succeeded
    /\ req.made.some
    /\ req.made.v \in files
    /\ sessions[resp.session_id].cv_file_path = JStr(req.made.v)

-----------------------------------------------------------------------------
(* Sessions and their files *)

\* C26: in every reachable state the cv_file_path of each stored session
\* names a temporary file that exists, and a request that ended in an error
\* response has left no session of its own in the store.
C26_StoredFilesExist ==
    /\ \A k \in DOMAIN sessions :
        /\ sessions[k].cv_file_path # NULL
        /\ sessions[k].cv_file_path.str \in files
    /\ (Failed /\ req.pc = "done" /\ req.made.some) =>
            \A k \in DOMAIN sessions : sessions[k].cv_file_path # JStr(req.made.v)

-----------------------------------------------------------------------------
(* The response and the store under other callers *)

\* The analysis lists of a response and the columns that store them.
ListColumns == {"missing_skills", "strengths", "experience_gaps", "recommendations"}

\* C27: in the step in which a request returns its success response, the
\* store holds a session with the response's session_id whose original_score
\* and whose four analysis lists are those of the response, whatever other
\* callers did to the store between the request's create and its update.
C27_ResponseMatchesStore ==
    [][(AnalyzeStep /\ Succeeded') =>
            /\ resp'.session_id \in DOMAIN sessions'
            /\ sessions'[resp'.session_id].original_score = resp'.analysis.original_score
            /\ \A c \in ListColumns :
                sessions'[resp'.session_id][c] = resp'.analysis[c]
      ]_vars

-----------------------------------------------------------------------------
(* The statistics: crud.py get_comprehensive_stats *)

\* A rational number num/den, den > 0; None is SQL NULL.
Ratio(num, den) == [num |-> num, den |-> den]

\* Python's round(x, 2) of the rational x, in hundredths: the nearest
\* hundredth, the even one on a tie.
Round2(x) ==
    LET q == (100 * x.num) \div x.den
        r == (100 * x.num) % x.den
    IN  IF 2 * r < x.den THEN q
        ELSE IF 2 * r > x.den THEN q + 1
        ELSE IF q % 2 = 0 THEN q ELSE q + 1

\* The sum of an integer column over the rows ids.
RECURSIVE SumOf(_, _, _)
SumOf(table, ids, col) ==
    IF ids = {} THEN 0
    ELSE LET k == CHOOSE k \in ids : TRUE
         IN  table[k][col].num + SumOf(table, ids \ {k}, col)

\* func.avg(column) over the rows ids: NULL values are skipped, and the
\* average of no value is NULL.
Avg(table, ids, col) ==
    LET present == {k \in ids : ~IsNull(table[k][col])}
    IN  IF present = {} THEN None
        ELSE Some(Ratio(SumOf(table, present, col), Cardinality(present)))

\* The greatest / least element of a set of integers, NULL for none.
MaxOf(S) == IF S = {} THEN None ELSE Some(CHOOSE m \in S : \A n \in S : n <= m)
MinOf(S) == IF S = {} THEN None ELSE Some(CHOOSE m \in S : \A n \in S : m <= n)

\* Python's "x or 0" on a number or None.
OrZero(x) == IF x.some THEN x.v ELSE 0
OrZeroRatio(x) == IF x.some /\ x.v.num # 0 THEN x.v ELSE Ratio(0, 1)

\* new_score - original_score: NULL when either is.
HasBoth(row) == ~IsNull(row.new_score) /\ ~IsNull(row.original_score)
Improvement(row) == row.new_score.num - row.original_score.num

\* Lines 156, 157 and 159: the thresholds of the performance metrics.
HighScore == 80
LowScore == 50
ImprovedBy == 20
\* Line 144
TopTitles == 10
\* Lines 149-150
WeekDays == 7
MonthDays == 30

IsHigh(row) == ~IsNull(row.original_score) /\ row.original_score.num >= HighScore
\* A low performer counted up to and including the threshold.
IsLow_Inclusive(row) == ~IsNull(row.original_score) /\ row.original_score.num <= LowScore
IsLow(row) == ~IsNull(row.original_score) /\ row.original_score.num < LowScore
IsMostImproved(row) == HasBoth(row) /\ Improvement(row) >= ImprovedBy

\* Lines 141-146: the titles by falling count, at most ten; titles of equal
\* count come in either order.
TopJobTitles(table) ==
    LET titled == {k \in DOMAIN table : ~IsNull(table[k].job_title)}
        titles == {table[k].job_title : k \in titled}
        CountOf(t) == Cardinality({k \in titled : table[k].job_title = t})
        orders == {q \in [1..Cardinality(titles) -> titles] :
                      /\ \A i, j \in DOMAIN q : i # j => q[i] # q[j]
                      /\ \A i, j \in DOMAIN q : i < j => CountOf(q[i]) >= CountOf(q[j])}
    IN  {[i \in 1..(IF Len(q) < TopTitles THEN Len(q) ELSE TopTitles) |->
            [title |-> q[i], count |-> CountOf(q[i])]] : q \in orders}

\* crud.py lines 113-179: the mappings the call may return (they differ in
\* the order of equally frequent titles only).  The three averages are in
\* hundredths; now and created_at are in days.
get_comprehensive_stats(table, now) ==
    LET all == DOMAIN table
        analyzed == {k \in all : ~IsNull(table[k].original_score)}
        avg_original == Avg(table, analyzed, "original_score")
        avg_enhanced == Avg(table, analyzed, "new_score")
        max_original == MaxOf({table[k].original_score.num : k \in analyzed})
        min_original == MinOf({table[k].original_score.num : k \in analyzed})
        max_improvement ==
            MaxOf({Improvement(table[k]) : k \in {j \in analyzed : HasBoth(table[j])}})
        types == {table[k].cv_file_type : k \in all}
        a == OrZeroRatio(avg_enhanced)
        b == OrZeroRatio(avg_original)
    IN  {[ total_sessions |-> Cardinality(all),
           analyzed_sessions |-> Cardinality(analyzed),
           enhanced_sessions |->
                Cardinality({k \in all : ~IsNull(table[k].enhanced_cv_path)}),
           avg_original_score |-> Round2(OrZeroRatio(avg_original)),
           avg_enhanced_score |-> Round2(OrZeroRatio(avg_enhanced)),
           avg_improvement |->
                Round2(Ratio(a.num * b.den - b.num * a.den, a.den * b.den)),
           max_original_score |-> OrZero(max_original),
           min_original_score |-> OrZero(min_original),
           max_improvement |-> OrZero(max_improvement),
           file_type_distribution |->
                [t \in types |-> Cardinality({k \in all : table[k].cv_file_type = t})],
           top_job_titles |-> tops,
           jobs_last_7_days |->
                Cardinality({k \in all : table[k].created_at.num >= now - WeekDays}),
           jobs_last_30_days |->
                Cardinality({k \in all : table[k].created_at.num >= now - MonthDays}),
           high_performing_jobs |-> Cardinality({k \in all : IsHigh(table[k])}),
           low_performing_jobs |-> Cardinality({k \in all : IsLow(table[k])}),
           most_improved_jobs |-> Cardinality({k \in all : IsMostImproved(table[k])}) ] :
        tops \in TopJobTitles(table)}

-----------------------------------------------------------------------------
(* The statistics, run on every store of a few sessions *)

\* How many sessions a store the statistics are taken of holds.
MaxStatRows == 2

StatIds == {<<"s" \o ToString(i)>> : i \in 1..MaxStatRows}
StatScores == {NULL, JNum(49), JNum(50), JNum(80)}
StatEnhancements ==
    {None}
    \cup {Some([e EXCEPT !.new_score = n, !.enhanced_cv_path = p]) :
            e \in DirectEnhancementArgs,
            n \in {JNum(69), JNum(70)},
            p \in {NULL, JStr(<<"/", "t", "/", "enhanced.docx">>)}}
StatTypes == {<<"txt">>, <<"pdf">>}
\* The days the call is made on; the drawn sessions are created on day 0.
StatNows == {0, 8, 31}

\* The row create_session makes and update_analysis and update_enhancement
\* then fill; the job title varies with the file type.
StatRow(id, score, enh, type) ==
    LET fresh == create_session(<<>>, id, JStr(PlainText), JStr(type),
                                JStr(TmpDir \o id), 0).sessions
        d == CHOOSE d \in DirectAnalysisArgs : d.original_score = JNum(65)
        a == [d EXCEPT !.original_score = score, !.job_title = JStr(type \o <<" job">>)]
        analysed == IF score = NULL THEN fresh
                    ELSE update_analysis(fresh, id, a, 0).sessions
    IN  IF enh.some THEN update_enhancement(analysed, id, enh.v, 0).sessions[id]
        ELSE analysed[id]

StatTables ==
    UNION {{[id \in S |-> StatRow(id, f[id][1], f[id][2], f[id][3])] :
                f \in [S -> StatScores \X StatEnhancements \X StatTypes]} :
           S \in SUBSET StatIds}

InitStats ==
    /\ sessions \in StatTables
    /\ files = {}
    /\ next_tmp = 0
    /\ clock \in StatNows
    /\ req = [pc |-> "idle"]
    /\ resp = NoCall
    /\ last_call = NoCall
    /\ txns = <<>>
    /\ ExtractorIdle
    /\ AnalyzerIdle

\* A call of CVSessionCRUD.get_comprehensive_stats.
CallGetComprehensiveStats ==
    /\ last_call = NoCall
    /\ \E out \in get_comprehensive_stats(sessions, clock) :
        last_call' = [op |-> "get_comprehensive_stats", id |-> NoCall,
                      args |-> NoCall, out |-> Return(out)]
    /\ UNCHANGED <<sessions, files, next_tmp, clock, req, resp, txns, xvars, avars>>

NextStats == CallGetComprehensiveStats

SpecStats == InitStats /\ [][NextStats]_vars

StatsTaken == "op" \in DOMAIN last_call /\ last_call.op = "get_comprehensive_stats"

\* The sessions that have both scores.
BothScores == {k \in DOMAIN sessions : HasBoth(sessions[k])}

\* The mean of new_score - original_score over the sessions ids (not empty).
MeanImprovement(ids) ==
    Ratio(SumOf(sessions, ids, "new_score") - SumOf(sessions, ids, "original_score"),
          Cardinality(ids))

\* C28: when some session has both scores, the avg_improvement the
\* statistics report is the mean of new_score - original_score over the
\* sessions that have both scores (to two decimals).
C28_AvgImprovementIsMeanOfDifferences ==
    (StatsTaken /\ BothScores # {}) =>
        last_call.out.value.avg_improvement = Round2(MeanImprovement(BothScores))

\* The sum of the counts a histogram gives the keys.
RECURSIVE SumCounts(_, _)
SumCounts(hist, keys) ==
    IF keys = {} THEN 0
    ELSE LET t == CHOOSE t \in keys : TRUE
         IN  hist[t] + SumCounts(hist, keys \ {t})

\* C29: total_sessions counts all sessions, analyzed_sessions those with an
\* original_score, enhanced_sessions those with an enhanced_cv_path,
\* high_performing_jobs those with original_score >= 80, low_performing_jobs
\* those with original_score < 50, most_improved_jobs those with
\* new_score - original_score >= 20; so high + low <= analyzed <= total, and
\* the counts of the file-type histogram add up to total_sessions.
C29_CountsMatchReference ==
    StatsTaken =>
        LET out == last_call.out.value
            ids == DOMAIN sessions
            Score(k) == sessions[k].original_score
            hist == out.file_type_distribution
        IN  /\ out.total_sessions = Cardinality(ids)
            /\ out.analyzed_sessions = Cardinality({k \in ids : Score(k) # NULL})
            /\ out.enhanced_sessions =
                    Cardinality({k \in ids : sessions[k].enhanced_cv_path # NULL})
            /\ out.high_performing_jobs =
                    Cardinality({k \in ids : Score(k) # NULL /\ Score(k).num >= 80})
            /\ out.low_performing_jobs =
                    Cardinality({k \in ids : Score(k) # NULL /\ Score(k).num < 50})
            /\ out.most_improved_jobs =
                    Cardinality({k \in ids : /\ Score(k) # NULL
                                             /\ sessions[k].new_score # NULL
                                             /\ sessions[k].new_score.num - Score(k).num >= 20})
            /\ out.high_performing_jobs + out.low_performing_jobs <= out.analyzed_sessions
            /\ out.analyzed_sessions <= out.total_sessions
            /\ SumCounts(hist, DOMAIN hist) = out.total_sessions

\* Statistics of two sessions of different file types: one scored exactly
\* 50 and enhanced to 70, one scored 80 and not enhanced.
C29_Witness ==
    /\ StatsTaken
    /\ Cardinality(DOMAIN sessions) = 2
    /\ Cardinality(DOMAIN last_call.out.value.file_type_distribution) = 2
    /\ last_call.out.value.high_performing_jobs = 1
    /\ last_call.out.value.low_performing_jobs = 0
    /\ last_call.out.value.most_improved_jobs = 1
    /\ last_call.out.value.enhanced_sessions = 1
    /\ \E k \in DOMAIN sessions : sessions[k].original_score = JNum(50)

-----------------------------------------------------------------------------
(* The job title of the request *)

\* The title has a character that is no white space.
HasVisible(title) == \E i \in 1..Len(title) : title[i] \notin {" ", "\t", "\n", "\r"}

\* The title the form is claimed to give the analysis.
ClaimedTitle(form) ==
    IF HasVisible(form.target_job_title) THEN form.target_job_title
    ELSE form.current_job_title

\* C30: the handler passes to the analyzer the target_job_title when it has
\* a character that is no white space and the current_job_title otherwise,
\* and a success response returns that same title as analysis.job_title and
\* has written it to the session's job_title.
C30_TargetTitleUnlessBlank ==
    [][AnalyzeStep =>
            /\ a_env'.job_title = ClaimedTitle(req.form)
            /\ Succeeded' =>
                /\ resp'.analysis.job_title = ClaimedTitle(req.form)
                /\ sessions'[resp'.session_id].job_title = JStr(ClaimedTitle(req.form))
      ]_vars

\* A request with a target title of one space succeeded with the current
\* title.
C30_Witness ==
    /\ Succeeded
    /\ resp.analysis.target_job_title = <<" ">>
    /\ resp.analysis.job_title = <<"D", "e", "v">>
    /\ a_env.job_title = <<"D", "e", "v">>
    /\ sessions[resp.session_id].job_title = JStr(<<"D", "e", "v">>)


====
